---------------------------- MODULE Spec2Model ----------------------------
(***************************************************************************)
(* A model of anifeed: the MyAnimeList REST adapter and its pagination     *)
(* loop, the AnimeService / TorrentService entry points, the anime source  *)
(* registry and the lazily loaded SimilarityService.                       *)
(*                                                                         *)
(* Python strings that the code inspects character by character (names    *)
(* that are lower-cased, user names and queries that are stripped) are     *)
(* sequences of one-character strings; all other strings are TLA+ strings. *)
(* A Python Optional is a sequence of length 0 (None) or 1.                *)
(***************************************************************************)
EXTENDS Integers, Sequences, FiniteSets, TLC

(***************************************************************************)
(* Bounds of the model.                                                    *)
(***************************************************************************)
\* pages one call of MalApi.get_user_anime_list may request
MaxPages == 3
\* calls one caller makes on the adapter or on the services
MaxCalls == 2
\* candidates of one compute call
MaxCands == 2
\* calls made on one SimilarityService
MaxComputes == 3
\* threads that call compute on one SimilarityService at the same time
NumThreads == 2
\* levels of containers in the data given to find_value_recursively
MaxDepth == 2
\* raw items in a payload given to parse_api_metadata
MaxItems == 2
\* rows of the results table given to NyaaParser.parse_api_metadata
MaxRows == 2
\* calls of init_db on one database
MaxInits == 2
\* records in one batch given to save_batch
MaxBatch == 2

(***************************************************************************)
(* State.                                                                  *)
(***************************************************************************)
VARIABLES
    \* MalApi.get_user_anime_list
    mal_pc,         \* "idle", "loop", "returned" or "raised"
    mal_user,       \* the username of the call
    mal_status,     \* the status argument of the call
    payload_dict,   \* the query parameters of the next page request
    response,       \* the accumulator dict(data = [...])
    mal_requests,   \* the page requests the call has sent, in order
    mal_served,     \* what session.get did for each of them
    mal_result,     \* Optional: the dict the call returned
    mal_error,      \* the exception the call raised, "none" otherwise
    mal_calls,      \* calls made so far
    mal_prev,       \* how many page requests the previous call sent
    \* anime_service_factory and AnimeService.__init__
    registry,       \* _ANIME_SOURCE_REGISTRY: a dict, as the sequence of its
                    \* (key, factory) items in insertion order
    last_op,        \* the last registry operation and what came of it
    svc,            \* Optional: the AnimeService constructed last
    registered,     \* history: the lower-cased names registered so far
    latest,         \* history: (lower-cased name, factory registered last)
    \* AnimeService.get_user_anime_list and AniListApi
    svc_pc,         \* "idle", "adapter", "returned" or "raised"
    svc_arg,        \* the username of the last call
    svc_error,      \* the exception the last call raised, "none" otherwise
    svc_result,     \* Optional: the list of Anime the last call returned
    svc_calls,      \* calls made so far
    ani_requests,   \* the POST requests AniListApi has sent in the last call
    ani_calls,      \* calls of AniListApi.get_user_anime_list so far
    svc_served,     \* history: how the exchange of each request of the last
                    \* call of the service ended
    \* TorrentService.search and NyaaApi
    tor_arg,        \* the query of the last search
    tor_error,      \* the exception the last search raised, "none" otherwise
    tor_result,     \* Optional: the list of Torrent the last search returned
    tor_calls,      \* searches made so far
    nyaa_requests,  \* the GET requests NyaaApi has sent in the last search
    nyaa_calls,     \* calls of NyaaApi.fetch_search_result so far
    tor_served,     \* history: how the exchange of the request of the last
                    \* search ended
    \* SimilarityService
    sim_model,      \* self._model: Optional, the model instance
    factory_calls,  \* invocations of self._model_factory so far
    factory_made,   \* model instances the factory has returned so far
    sim_last,       \* the last compute call and what came of it
    sim_calls,      \* compute and load_model calls made so far
    sim_only_empty, \* history: every call so far was a compute with no candidates
    \* SimilarityService.compute called by several threads at once
    thr_pc,         \* per thread: "idle", "line98", "line100", "line100_store",
                    \* "line131", "returned" or "raised"
    thr_cands,      \* per thread: the candidates of its call
    thr_made,       \* per thread: Optional, what its factory call returned
    thr_result,     \* per thread: Optional, what its call returned
    \* _translate_status of the two adapters, called on its own
    tr_last,        \* the last translation: adapter, argument and result
    tr_prev,        \* the translation before it
    \* DictWrangler.find_value_recursively, called on its own
    fvr_pc,         \* "called" or "returned"
    fvr_data,       \* the data argument
    fvr_key,        \* the target_key argument
    fvr_result,     \* what the call returned (None before it returns)
    \* parse_api_metadata of MalParser and AniListParser, called on its own
    par_pc,         \* "called", "returned" or "raised"
    par_parser,     \* the class of the parser
    par_metadata,   \* the metadata argument
    par_result,     \* the list of Anime the call returned
    par_error,      \* the exception the call raised, "none" otherwise
    \* NyaaParser.parse_api_metadata, called on its own
    ny_pc,          \* "called", "returned" or "raised"
    ny_doc,         \* the document: whether it has a tbody, and its rows
    ny_result,      \* the list of Torrent the call returned
    ny_error,       \* the exception the call raised, "none" otherwise
    \* the Anime dataclass
    an_op,          \* the last operation: "none", "new" or "setattr"
    an_kwargs,      \* the keyword arguments of the last construction
    an_obj,         \* Optional: the record constructed last
    an_error,       \* the exception the last operation raised, or "none"
    \* one request of the core through the default session of HttpClient
    rt_pc,          \* "idle", "sent" (a request is out), "responded" or "done"
    rt_method,      \* "GET" or "POST"
    rt_total,       \* the total count left in the Retry object
    rt_answers,     \* what the server did for each request sent so far
    rt_outcome,     \* how the call of the core ended, "none" before
    rt_calls,       \* calls of the core so far
    \* init_db and the schema_migrations table of one database
    mig_package,    \* the names resources.contents(MIGRATIONS_PACKAGE) gives
    schema_migrations, \* the filenames in the table
    mig_executed,   \* history: the scripts executescript was given, in order
    mig_calls,      \* init_db calls so far
    \* the repositories and main
    anime_table,    \* the rows of table anime
    torrent_table,  \* the rows of table torrent
    db_writes,      \* executemany statements the database has been given
    db_last,        \* the last repository or mapper call and what came of it
    db_calls,       \* repository, mapper and main calls so far
    main_last       \* the last run of main and what came of it

malVars ==
    <<mal_pc, mal_user, mal_status, payload_dict, response, mal_requests,
      mal_served, mal_result, mal_error, mal_calls, mal_prev>>

regVars == <<registry, last_op, svc, registered, latest>>

svcVars ==
    <<svc_pc, svc_arg, svc_error, svc_result, svc_calls, ani_requests, ani_calls,
      svc_served>>

torVars ==
    <<tor_arg, tor_error, tor_result, tor_calls, nyaa_requests, nyaa_calls,
      tor_served>>

thrVars == <<thr_pc, thr_cands, thr_made, thr_result>>

simVars ==
    <<sim_model, factory_calls, factory_made, sim_last, sim_calls, sim_only_empty,
      thrVars>>

trVars == <<tr_last, tr_prev>>

\* the state of the functions that are exercised on their own
fvrVars == <<fvr_pc, fvr_data, fvr_key, fvr_result>>

parVars == <<par_pc, par_parser, par_metadata, par_result, par_error>>

nyVars == <<ny_pc, ny_doc, ny_result, ny_error>>

\* the state of the components that follow the list parsers
anVars == <<an_op, an_kwargs, an_obj, an_error>>

rtVars ==
    <<rt_pc, rt_method, rt_total, rt_answers, rt_outcome, rt_calls>>

migVars == <<mig_package, schema_migrations, mig_executed, mig_calls>>

dbVars == <<anime_table, torrent_table, db_writes, db_last, db_calls, main_last>>

extVars == <<nyVars, anVars, rtVars, migVars, dbVars>>

libVars == <<trVars, fvrVars, parVars, extVars>>

\* the state of every component before them
coreVars ==
    <<malVars, regVars, svcVars, torVars, simVars, trVars, fvrVars, parVars>>

vars == <<malVars, regVars, svcVars, torVars, simVars, libVars>>

(***************************************************************************)
(* Text helpers.                                                           *)
(***************************************************************************)
\* characters str.strip() removes
Whitespace == {" ", "\t", "\n"}

RECURSIVE LStrip(_)
LStrip(s) == IF s # <<>> /\ Head(s) \in Whitespace THEN LStrip(Tail(s)) ELSE s

RECURSIVE RStrip(_)
RStrip(s) ==
    IF s # <<>> /\ s[Len(s)] \in Whitespace
    THEN RStrip(SubSeq(s, 1, Len(s) - 1))
    ELSE s

\* str.strip()
Strip(s) == RStrip(LStrip(s))

(***************************************************************************)
(* AnimeStatus and the MyAnimeList status table.                           *)
(***************************************************************************)
AnimeStatus == {"WATCHING", "PLANNING", "COMPLETED", "DROPPED", "PAUSED", "REPEATING"}

\* what a caller may pass as status: a member of the enumeration, or
\* anything else (the parameter is not checked)
StatusArgs == AnimeStatus \cup {"NOT_A_STATUS"}

MAL_STATUS_MAP ==
    [s \in AnimeStatus |->
        CASE s = "WATCHING"  -> "watching"
          [] s = "PLANNING"  -> "plan_to_watch"
          [] s = "COMPLETED" -> "completed"
          [] s = "DROPPED"   -> "dropped"
          [] s = "PAUSED"    -> "on_hold"
          [] s = "REPEATING" -> "watching"]

\* a plausible slip: dict.get with a default of ""
MalTranslateStatusDefault(internal_status) ==
    IF internal_status \in DOMAIN MAL_STATUS_MAP
    THEN <<MAL_STATUS_MAP[internal_status]>>
    ELSE <<"">>

\* MalApi._translate_status: dict.get, None for a key the table lacks
MalTranslateStatus(internal_status) ==
    IF internal_status \in DOMAIN MAL_STATUS_MAP
    THEN <<MAL_STATUS_MAP[internal_status]>>
    ELSE <<>>

(***************************************************************************)
(* The HTTP collaborator as MalApi sees it.                                *)
(***************************************************************************)
HttpCodes == {200, 404, 503}

\* the entry lists a page may carry
PageDatas == {<<>>, <<"a">>, <<"b", "a">>}

\* the "paging" member of a page body: with a next link, with an empty
\* next link, without a next link, or no "paging" member at all
PagingKinds == {"next", "empty_next", "no_next", "absent"}

\* what session.get can do: raise a transport error, or hand back a
\* response with a status code and a JSON body
TransportError ==
    [kind |-> "transport_error", code |-> 0, has_data |-> FALSE,
     data |-> <<>>, paging |-> "absent"]

PageResponses ==
    [kind : {"response"}, code : HttpCodes, has_data : {TRUE},
     data : PageDatas, paging : PagingKinds]
    \cup [kind : {"response"}, code : HttpCodes, has_data : {FALSE},
          data : {<<>>}, paging : PagingKinds]
    \cup {TransportError}

\* how an exchange with a server ended: in a transport error, or in a
\* response with a status code; for a response with a success status,
\* whether its body has the members the code reads
Exchange(r, shape) ==
    [kind |-> r.kind, code |-> r.code,
     complete |-> (r.kind = "response" /\ r.code < 400 /\ shape)]

\* requests.Response.raise_for_status: raises for 4xx and 5xx
RaisesForStatus(code) == code >= 400 /\ code < 600

\* truthiness of aux.get("paging").get("next")
NextMarker(paging) == paging = "next"

\* the response makes the loop ask for another page
Continues(r) ==
    /\ r.kind = "response"
    /\ ~RaisesForStatus(r.code)
    /\ r.has_data
    /\ NextMarker(r.paging)

\* The server, answering from the set R, stops handing out next links at
\* the latest on page MaxPages.
ServerResponses(R, k) ==
    IF k >= MaxPages THEN {r \in R : ~Continues(r)} ELSE R

\* the answers the servers give to the calls made through the services
ServicePageResponses ==
    {r \in PageResponses : r.code \in {200, 404} /\ Len(r.data) <= 1}

(***************************************************************************)
(* MalApi.get_user_anime_list.                                             *)
(***************************************************************************)
MalPageLimit == 1000

MalFields == "id,title,alternative_titles,status,num_episodes"

UserNames == {<<"b", "o", "b">>, <<"a", "l">>}

NoPayload == [status |-> <<>>, fields |-> "", limit |-> 0, nsfw |-> "", offset |-> 0]

MalInit ==
    /\ mal_pc = "idle"
    /\ mal_user = <<>>
    /\ mal_status = "NOT_A_STATUS"
    /\ payload_dict = NoPayload
    /\ response = [data |-> <<>>]
    /\ mal_requests = <<>>
    /\ mal_served = <<>>
    /\ mal_result = <<>>
    /\ mal_error = "none"
    /\ mal_calls = 0
    /\ mal_prev = 0

\* lines 89-95
NewPayloadDictStale(status) ==
    [status |-> status, fields |-> MalFields, limit |-> MalPageLimit,
     nsfw |-> "true", offset |-> payload_dict.offset]

NewPayloadDict(status) ==
    [status |-> status, fields |-> MalFields, limit |-> MalPageLimit,
     nsfw |-> "true", offset |-> 0]

\* line 105
AdvanceOffset(p) == [p EXCEPT !.offset = p.offset + p.limit]

\* line 103: list.extend
ExtendFront(acc, data) == data \o acc

Extend(acc, data) == acc \o data

\* line 101
RaiseForStatusNever(r) == FALSE

RaiseForStatus(r) == RaisesForStatus(r.code)

\* line 104
HasNextAlways(r) == TRUE

HasNext(r) == NextMarker(r.paging)

\* lines 88-97: the call starts; nothing has been requested yet
MalStart(username, status) ==
    /\ mal_pc' = "loop"
    /\ mal_user' = username
    /\ mal_status' = status
    /\ payload_dict' = NewPayloadDict(MalTranslateStatus(status))
    /\ response' = [data |-> <<>>]
    /\ mal_requests' = <<>>
    /\ mal_served' = <<>>
    /\ mal_result' = <<>>
    /\ mal_error' = "none"
    /\ mal_calls' = mal_calls + 1
    /\ mal_prev' = Len(mal_requests)

MalCall ==
    /\ mal_pc # "loop"
    /\ svc_pc # "adapter"
    /\ mal_calls < MaxCalls
    /\ \E username \in UserNames, status \in StatusArgs : MalStart(username, status)
    /\ UNCHANGED <<regVars, svcVars, torVars, simVars, libVars>>

MalRaise(exc) ==
    /\ mal_pc' = "raised"
    /\ mal_error' = exc
    /\ UNCHANGED <<payload_dict, response, mal_result>>

\* lines 98-109: one iteration of the loop, the test of has_paging that
\* follows it and, when that test fails, the return
MalPageCore(R) ==
    /\ mal_pc = "loop"
    /\ Len(mal_requests) < MaxPages
    /\ \E r \in ServerResponses(R, Len(mal_requests) + 1) :
        /\ mal_requests' =
              Append(mal_requests,
                     [path |-> <<"users", mal_user, "animelist">>,
                      params |-> payload_dict])
        /\ mal_served' = Append(mal_served, r)
        /\ IF r.kind = "transport_error" THEN MalRaise("RequestException")
           ELSE IF RaiseForStatus(r) THEN MalRaise("HTTPError")
           ELSE IF ~r.has_data THEN MalRaise("KeyError")
           ELSE IF r.paging = "absent"
           THEN /\ mal_pc' = "raised"
                /\ mal_error' = "AttributeError"
                /\ response' = [data |-> Extend(response.data, r.data)]
                /\ UNCHANGED <<payload_dict, mal_result>>
           ELSE IF HasNext(r)
           THEN /\ payload_dict' = AdvanceOffset(payload_dict)
                /\ response' = [data |-> Extend(response.data, r.data)]
                /\ UNCHANGED <<mal_pc, mal_error, mal_result>>
           ELSE /\ response' = [data |-> Extend(response.data, r.data)]
                /\ mal_pc' = "returned"
                /\ mal_result' = <<response'>>
                /\ UNCHANGED <<payload_dict, mal_error>>
    /\ UNCHANGED <<mal_user, mal_status, mal_calls, mal_prev>>
    /\ UNCHANGED <<regVars, torVars, simVars, libVars>>

\* MalApi.get_user_anime_list called directly: one step of its loop
MalPage ==
    /\ svc_pc # "adapter"
    /\ MalPageCore(PageResponses)
    /\ UNCHANGED svcVars

(***************************************************************************)
(* The anime source registry (anime_service_factory.py).                   *)
(***************************************************************************)
\* str.lower() on one character
LowerChar(c) ==
    CASE c = "A" -> "a" [] c = "I" -> "i" [] c = "K" -> "k" [] c = "L" -> "l"
      [] c = "M" -> "m" [] c = "N" -> "n" [] c = "S" -> "s" [] c = "T" -> "t"
      [] c = "U" -> "u" [] c = "X" -> "x" [] OTHER -> c

\* str.lower()
Lower(s) == [i \in 1..Len(s) |-> LowerChar(s[i])]

NameAnilist == <<"a", "n", "i", "l", "i", "s", "t">>

NameMal == <<"m", "a", "l">>

\* the names callers register and look up, in several spellings
SourceNames ==
    { NameAnilist, <<"A", "n", "i", "L", "i", "s", "t">>,
      NameMal, <<"M", "A", "L">>,
      <<"k", "i", "t", "s", "u">>, <<"K", "i", "t", "s", "u">>,
      <<"x">>, <<"X">> }

\* the factories callers register
CustomFactories == {"f1", "f2"}

\* what a factory builds when it is called with (session, logger)
FactoryMakes(f) ==
    CASE f = "AniListFactory" -> [api |-> "AniListApi", parser |-> "AniListParser"]
      [] f = "MalFactory"     -> [api |-> "MalApi", parser |-> "MalParser"]
      [] OTHER                -> [api |-> f, parser |-> f]

NoOp ==
    [op |-> "none", name |-> <<>>, factory |-> <<>>, error |-> "none",
     available |-> <<>>, made |-> <<>>]

\* lines 20-29
RegInit ==
    /\ registry = << [key |-> NameAnilist, factory |-> "AniListFactory"],
                     [key |-> NameMal, factory |-> "MalFactory"] >>
    /\ last_op = NoOp
    /\ svc = <<>>
    /\ registered = {}
    /\ latest = {}

\* dict.keys(), in insertion order
Keys(reg) == [i \in 1..Len(reg) |-> reg[i].key]

KeySet(reg) == {reg[i].key : i \in 1..Len(reg)}

\* dict.get(key): None for a missing key
Get(reg, key) ==
    IF key \in KeySet(reg)
    THEN <<reg[CHOOSE i \in 1..Len(reg) : reg[i].key = key].factory>>
    ELSE <<>>

\* a plausible slip: the assignment rebuilds the dict around the new item
SetItemOnly(reg, key, f) == <<[key |-> key, factory |-> f]>>

\* dict[key] = f: a present key keeps its place and gets the new value, a
\* new key goes to the end
SetItem(reg, key, f) ==
    IF key \in KeySet(reg)
    THEN [i \in 1..Len(reg) |->
            IF reg[i].key = key THEN [key |-> key, factory |-> f] ELSE reg[i]]
    ELSE Append(reg, [key |-> key, factory |-> f])

\* a plausible slip: the name is stored as it was written
RegistryKeyVerbatim(name) == name

\* line 49: the key a name is stored under
RegistryKey(name) == Lower(name)

\* a plausible slip: the name is looked up as it was written
LookupKeyVerbatim(source) == source

\* line 75: the key a source is looked up under
LookupKey(source) == Lower(source)

RECURSIVE Join(_, _)
\* sep.join(parts)
Join(sep, parts) ==
    IF parts = <<>> THEN <<>>
    ELSE IF Len(parts) = 1 THEN parts[1]
    ELSE parts[1] \o sep \o Join(sep, Tail(parts))

\* a plausible slip: the message names the built-in sources only
AvailableBuiltins(reg) == Join(<<",", " ">>, <<NameAnilist, NameMal>>)

\* line 77
Available(reg) == Join(<<",", " ">>, Keys(reg))

\* lines 32-49
RegisterAnimeSource(name, factory) ==
    /\ registry' = SetItem(registry, RegistryKey(name), factory)
    /\ last_op' = [NoOp EXCEPT !.op = "register", !.name = name,
                               !.factory = <<factory>>]
    /\ registered' = registered \cup {Lower(name)}
    /\ latest' = {e \in latest : e[1] # Lower(name)} \cup {<<Lower(name), factory>>}
    /\ UNCHANGED svc

Register ==
    /\ \E name \in SourceNames, factory \in CustomFactories :
          RegisterAnimeSource(name, factory)
    /\ UNCHANGED <<malVars, svcVars, torVars, simVars, libVars>>

\* lines 75-81: what the call does, as the record of its outcome
CreateOutcome(source) ==
    LET factory == Get(registry, LookupKey(source)) IN
    IF factory = <<>>
    THEN [NoOp EXCEPT !.op = "create", !.name = source,
                      !.error = "AnimeSourceError",
                      !.available = Available(registry)]
    ELSE [NoOp EXCEPT !.op = "create", !.name = source, !.factory = factory,
                      !.made = <<FactoryMakes(factory[1])>>]

\* create_anime_api_service called directly
Create ==
    /\ \E source \in SourceNames : last_op' = CreateOutcome(source)
    /\ UNCHANGED <<registry, svc, registered, latest>>
    /\ UNCHANGED <<malVars, svcVars, torVars, simVars, libVars>>

\* AnimeService.__init__ (anime_service.py lines 53-59): when the factory
\* lookup raises, no service object comes to exist
AnimeServiceNew ==
    /\ svc_pc # "adapter"
    /\ \E source \in SourceNames :
          /\ last_op' = CreateOutcome(source)
          /\ svc' = IF last_op'.error = "none"
                    THEN <<[source |-> source, api |-> last_op'.made[1].api,
                            parser |-> last_op'.made[1].parser]>>
                    ELSE svc
    /\ UNCHANGED <<registry, registered, latest>>
    /\ UNCHANGED <<malVars, svcVars, torVars, simVars, libVars>>

(***************************************************************************)
(* Decoded JSON, and DictWrangler.find_value_recursively over it.  A value *)
(* is a record: None, a primitive, a list of values, or a dict, kept as    *)
(* the sequence of its (key, value) items in insertion order.  The items   *)
(* of a list carry the empty key.                                          *)
(***************************************************************************)
None == [kind |-> "None", items |-> <<>>, val |-> ""]

Prim(v) == [kind |-> "prim", items |-> <<>>, val |-> v]

Item(k, v) == [key |-> k, value |-> v]

List(values) ==
    [kind |-> "list", items |-> [i \in 1..Len(values) |-> Item("", values[i])],
     val |-> ""]

Dict(items) == [kind |-> "dict", items |-> items, val |-> ""]

\* key in data, for a dict
HasKey(data, key) == \E i \in 1..Len(data.items) : data.items[i].key = key

\* data[key], for a dict that has the key
GetItem(data, key) ==
    data.items[CHOOSE i \in 1..Len(data.items) : data.items[i].key = key].value

\* commons.py lines 108 and 114: result is not None fails, the loop goes on
IsNone(result) == result = None

RECURSIVE FindValueRecursively(_, _)
RECURSIVE FindInItems(_, _, _)
\* commons.py lines 106-109 and 112-115: the loop over the values of a
\* dict or the elements of a list, from item i on
FindInItems(items, target_key, i) ==
    IF i > Len(items) THEN None
    ELSE LET result == FindValueRecursively(items[i].value, target_key) IN
         IF ~IsNone(result) THEN result
         ELSE FindInItems(items, target_key, i + 1)

\* commons.py lines 102-116
FindValueRecursively(data, target_key) ==
    IF data.kind = "dict"
    THEN IF HasKey(data, target_key)
         THEN GetItem(data, target_key)
         ELSE FindInItems(data.items, target_key, 1)
    ELSE IF data.kind = "list"
    THEN FindInItems(data.items, target_key, 1)
    ELSE None

\* the keys of the dicts given, and the keys searched for
JsonKeys == {"k", "a"}

TargetKeys == {"k", "z"}

JsonLeaves == {None, Prim("v1"), Prim("v2")}

\* the lists and dicts of at most two members drawn from S; the keys of a
\* dict differ
Containers(S) ==
    {List(<<>>), Dict(<<>>)}
    \cup {List(<<x>>) : x \in S}
    \cup {List(<<x, y>>) : x \in S, y \in S}
    \cup {Dict(<<Item(k, x)>>) : k \in JsonKeys, x \in S}
    \cup {Dict(<<Item(p[1], x), Item(p[2], y)>>) :
            p \in {q \in JsonKeys \X JsonKeys : q[1] # q[2]}, x \in S, y \in S}

RECURSIVE JsonValues(_)
\* the values with at most d levels of containers above their leaves
JsonValues(d) ==
    IF d = 0 THEN JsonLeaves
    ELSE LET inner == JsonValues(d - 1) IN inner \cup Containers(inner)

(***************************************************************************)
(* AnimeService.get_user_anime_list, over the adapter and the parser the   *)
(* service was constructed with.                                           *)
(***************************************************************************)
ANILIST_STATUS_MAP ==
    [s \in AnimeStatus |->
        CASE s = "WATCHING"  -> "CURRENT"
          [] s = "PLANNING"  -> "PLANNING"
          [] s = "COMPLETED" -> "COMPLETED"
          [] s = "DROPPED"   -> "DROPPED"
          [] s = "PAUSED"    -> "PAUSED"
          [] s = "REPEATING" -> "REPEATING"]

\* AniListApi._translate_status
AniListTranslateStatus(internal_status) ==
    IF internal_status \in DOMAIN ANILIST_STATUS_MAP
    THEN <<ANILIST_STATUS_MAP[internal_status]>>
    ELSE <<>>

\* the user names and search queries callers pass
TextArgs ==
    { <<>>, <<" ">>, <<"\t", "\n">>, <<"b", "o", "b">>, <<" ", "a", "l", " ">> }

\* the statuses callers of the service pass (main.py line 51 passes
\* COMPLETED)
ServiceStatusArgs == {"COMPLETED", "NOT_A_STATUS"}

\* a plausible slip: only the empty string is rejected
RejectsEmptyOnly(text) == text = <<>>

\* not text or not text.strip()
Rejects(text) == text = <<>> \/ Strip(text) = <<>>

\* the answers to the one POST of AniListApi: has_data says whether the
\* body holds an "entries" list, data is that list
AniListResponses == {r \in ServicePageResponses : r.paging = "absent"}

\* the source tag a parser writes into its records: MalParser line 58 is
\* self.__class__.__name__; AniListParser line 63 is
\* AniListParser.__class__.__name__, the name of the metaclass
SourceTag(parser) == IF parser = "MalParser" THEN "MalParser" ELSE "type"

\* anime_model.py lines 32-35: the fields the dataclass declares, and those
\* without a default
AnimeFields == {"title_romaji", "title_english", "status", "episodes"}

AnimeRequired == {"title_romaji", "title_english", "status"}

\* the generated __init__ takes the declared fields only, and needs those
\* without a default
Accepts(kwargs) ==
    /\ DOMAIN kwargs \subseteq AnimeFields
    /\ AnimeRequired \subseteq DOMAIN kwargs

\* Anime(**kwargs): the record, or TypeError for a keyword the dataclass
\* does not declare or a required field left out
AnimeNew(kwargs) ==
    IF Accepts(kwargs)
    THEN [error |-> "none",
          value |-> [f \in DOMAIN kwargs \cup {"episodes"} |->
                        IF f \in DOMAIN kwargs THEN kwargs[f] ELSE None]]
    ELSE [error |-> "TypeError", value |-> <<>>]

\* the top-level field a parser reads the items from, and the field names
\* it extracts from an item (mal_parser.py lines 53-62, anilist_parser.py
\* lines 58-67)
TopKey(parser) == IF parser = "MalParser" THEN "data" ELSE "entries"

FieldKey(parser, field) ==
    CASE field = "anime_id"      -> "id"
      [] field = "title_romaji"  -> IF parser = "MalParser" THEN "title" ELSE "romaji"
      [] field = "title_english" -> IF parser = "MalParser" THEN "en" ELSE "english"
      [] field = "episodes"      -> IF parser = "MalParser" THEN "num_episodes"
                                                            ELSE "episodes"
      [] field = "status"        -> "status"

ExtractedFields == {"anime_id", "title_romaji", "title_english", "episodes", "status"}

\* the keyword arguments a parser builds for item x (lines 56-63 and 61-68)
AnimeKwargs(parser, x) ==
    [f \in ExtractedFields \cup {"source"} |->
        IF f = "source" THEN Prim(SourceTag(parser))
        ELSE FindValueRecursively(x, FieldKey(parser, f))]

\* the list comprehension of parse_api_metadata: one Anime per item, in
\* order; an exception of a constructor call leaves the comprehension
ParseItems(parser, items) ==
    LET made == [i \in 1..Len(items) |-> AnimeNew(AnimeKwargs(parser, items[i]))] IN
    IF \E i \in 1..Len(items) : made[i].error # "none"
    THEN [error |-> "TypeError", records |-> <<>>]
    ELSE [error |-> "none", records |-> [i \in 1..Len(items) |-> made[i].value]]

\* parse_api_metadata: iterating a list gives its elements, iterating a
\* dict its keys, and None or a number cannot be iterated
ParseApiMetadata(parser, metadata) ==
    LET top == FindValueRecursively(metadata, TopKey(parser)) IN
    IF top.kind = "list"
    THEN ParseItems(parser, [i \in 1..Len(top.items) |-> top.items[i].value])
    ELSE IF top.kind = "dict"
    THEN ParseItems(parser, [i \in 1..Len(top.items) |-> Prim(top.items[i].key)])
    ELSE [error |-> "TypeError", records |-> <<>>]

\* the JSON of the list entry named raw, as each source sends it
\* (mal_parser.py lines 41-50, anilist_parser.py lines 41-55)
MalEntry(raw) ==
    Dict(<<Item("node",
        Dict(<<Item("id", Prim(raw)),
               Item("title", Prim("romaji of " \o raw)),
               Item("alternative_titles",
                    Dict(<<Item("en", Prim("english of " \o raw))>>)),
               Item("num_episodes", Prim("12")),
               Item("status", Prim("finished_airing"))>>))>>)

AniListEntry(raw) ==
    Dict(<<Item("media",
        Dict(<<Item("id", Prim(raw)),
               Item("title",
                    Dict(<<Item("romaji", Prim("romaji of " \o raw)),
                           Item("english", Prim("english of " \o raw))>>)),
               Item("episodes", Prim("12")),
               Item("status", Prim("FINISHED"))>>))>>)

\* what an adapter hands to the parser: MalApi its accumulator
\* dict(data = [...]), AniListApi the decoded body, with the entries under
\* data.MediaListCollection.lists[0] or, for a body of another shape,
\* without them
MalRawData(data) == Dict(<<Item("data", List([i \in 1..Len(data) |-> MalEntry(data[i])]))>>)

AniListRawData(has_entries, data) ==
    IF has_entries
    THEN Dict(<<Item("data", Dict(<<Item("MediaListCollection",
            Dict(<<Item("lists", List(<<
                Dict(<<Item("entries",
                    List([i \in 1..Len(data) |-> AniListEntry(data[i])]))>>)>>))>>))>>))>>)
    ELSE Dict(<<Item("data", None)>>)

SvcInit ==
    /\ svc_pc = "idle"
    /\ svc_arg = <<>>
    /\ svc_error = "none"
    /\ svc_result = <<>>
    /\ svc_calls = 0
    /\ ani_requests = <<>>
    /\ ani_calls = 0
    /\ svc_served = <<>>

\* the service can take a call
SvcReady ==
    /\ svc # <<>>
    /\ svc_pc # "adapter"
    /\ mal_pc # "loop"
    /\ svc_calls + tor_calls < MaxCalls

\* lines 85-86: the call is turned down
AnimeServiceRejected ==
    /\ SvcReady
    /\ \E username \in TextArgs :
          /\ Rejects(username)
          /\ svc_arg' = username
    /\ svc_pc' = "raised"
    /\ svc_error' = "ValueError"
    /\ svc_result' = <<>>
    /\ svc_calls' = svc_calls + 1
    /\ svc_served' = <<>>
    /\ UNCHANGED <<ani_requests, ani_calls>>
    /\ UNCHANGED <<malVars, regVars, torVars, simVars, libVars>>

\* lines 85-89 with a MalApi: the adapter is entered
AnimeServiceViaMal ==
    /\ SvcReady
    /\ svc[1].api = "MalApi"
    /\ \E username \in TextArgs, status \in ServiceStatusArgs :
          /\ ~Rejects(username)
          /\ svc_arg' = username
          /\ MalStart(username, status)
    /\ svc_pc' = "adapter"
    /\ svc_error' = "none"
    /\ svc_result' = <<>>
    /\ svc_calls' = svc_calls + 1
    /\ svc_served' = <<>>
    /\ UNCHANGED <<ani_requests, ani_calls>>
    /\ UNCHANGED <<regVars, torVars, simVars, libVars>>

\* lines 89-92 with a MalApi: one step of the adapter's loop; when the
\* adapter returns, the parser runs and the service returns, and what the
\* adapter raises leaves the service as it is
AnimeServiceMalPage ==
    /\ svc_pc = "adapter"
    /\ MalPageCore(ServicePageResponses)
    /\ IF mal_pc' = "returned"
       THEN LET parsed == ParseApiMetadata(svc[1].parser,
                                           MalRawData(mal_result'[1].data)) IN
            /\ svc_pc' = IF parsed.error = "none" THEN "returned" ELSE "raised"
            /\ svc_error' = parsed.error
            /\ svc_result' = IF parsed.error = "none" THEN <<parsed.records>>
                                                       ELSE <<>>
       ELSE /\ svc_pc' = IF mal_pc' = "loop" THEN "adapter" ELSE "raised"
            /\ svc_error' = mal_error'
            /\ svc_result' = <<>>
    /\ svc_served' = [i \in 1..Len(mal_served') |->
                         Exchange(mal_served'[i],
                                  mal_served'[i].has_data
                                     /\ mal_served'[i].paging # "absent")]
    /\ UNCHANGED <<svc_arg, svc_calls, ani_requests, ani_calls>>

\* lines 85-92 with an AniListApi (anilist_api.py lines 89-97): one POST
AnimeServiceViaAniList ==
    /\ SvcReady
    /\ svc[1].api = "AniListApi"
    /\ \E username \in TextArgs, status \in ServiceStatusArgs, r \in AniListResponses :
          /\ ~Rejects(username)
          /\ svc_arg' = username
          /\ ani_requests' =
                <<[userName |-> username, status |-> AniListTranslateStatus(status)]>>
          /\ svc_served' = <<Exchange(r, r.has_data)>>
          /\ IF r.kind = "transport_error"
             THEN svc_pc' = "raised" /\ svc_error' = "RequestException"
                  /\ svc_result' = <<>>
             ELSE IF RaiseForStatus(r)
             THEN svc_pc' = "raised" /\ svc_error' = "HTTPError"
                  /\ svc_result' = <<>>
             ELSE LET parsed == ParseApiMetadata(svc[1].parser,
                                                 AniListRawData(r.has_data, r.data)) IN
                  /\ svc_pc' = IF parsed.error = "none" THEN "returned" ELSE "raised"
                  /\ svc_error' = parsed.error
                  /\ svc_result' = IF parsed.error = "none" THEN <<parsed.records>>
                                                             ELSE <<>>
    /\ ani_calls' = ani_calls + 1
    /\ svc_calls' = svc_calls + 1
    /\ UNCHANGED <<malVars, regVars, torVars, simVars, libVars>>

(***************************************************************************)
(* TorrentService.search, over NyaaApi and NyaaParser.                     *)
(***************************************************************************)
\* the rows of a results table: "r1" and "r2" are well-formed rows, "short"
\* lacks the cells the parser indexes
NyaaRows == {<<>>, <<"r2", "r1">>, <<"r1", "short">>}

\* the answers to the one GET of NyaaApi: a transport error, or a status
\* code and a document that has a tbody or has none
NyaaResponses ==
    [kind : {"response"}, code : {200, 404}, has_tbody : BOOLEAN, rows : NyaaRows]
    \cup {[kind |-> "transport_error", code |-> 0, has_tbody |-> FALSE, rows |-> <<>>]}

\* nyaa_search_model.py lines 39-43
NyaaParameters(q) == [q |-> q, f |-> "0", s |-> "seeders", o |-> "desc", c |-> "1_0"]

TorInit ==
    /\ tor_arg = <<>>
    /\ tor_error = "none"
    /\ tor_result = <<>>
    /\ tor_calls = 0
    /\ nyaa_requests = <<>>
    /\ nyaa_calls = 0
    /\ tor_served = <<>>

\* the caller, a single thread, is not inside another call
TorReady ==
    /\ svc_pc # "adapter"
    /\ svc_calls + tor_calls < MaxCalls

\* lines 77-78: the search is turned down
TorrentSearchRejected ==
    /\ TorReady
    /\ \E query \in TextArgs :
          /\ Rejects(query)
          /\ tor_arg' = query
    /\ tor_error' = "ValueError"
    /\ tor_result' = <<>>
    /\ tor_calls' = tor_calls + 1
    /\ tor_served' = <<>>
    /\ UNCHANGED <<nyaa_requests, nyaa_calls>>
    /\ UNCHANGED <<malVars, regVars, svcVars, simVars, libVars>>

\* lines 77-85, nyaa_api.py lines 71-73 and nyaa_parser.py lines 65-80
TorrentSearch ==
    /\ TorReady
    /\ \E query \in TextArgs, r \in NyaaResponses :
          /\ ~Rejects(query)
          /\ tor_arg' = query
          /\ nyaa_requests' = <<NyaaParameters(Strip(query))>>
          /\ tor_served' = <<Exchange(r, r.has_tbody)>>
          /\ IF r.kind = "transport_error"
             THEN tor_error' = "RequestException" /\ tor_result' = <<>>
             ELSE IF RaisesForStatus(r.code)
             THEN tor_error' = "HTTPError" /\ tor_result' = <<>>
             ELSE IF ~r.has_tbody
             THEN tor_error' = "AttributeError" /\ tor_result' = <<>>
             ELSE IF \E i \in 1..Len(r.rows) : r.rows[i] = "short"
             THEN tor_error' = "IndexError" /\ tor_result' = <<>>
             ELSE tor_error' = "none" /\ tor_result' = <<r.rows>>
    /\ nyaa_calls' = nyaa_calls + 1
    /\ tor_calls' = tor_calls + 1
    /\ UNCHANGED <<malVars, regVars, svcVars, simVars, libVars>>

(***************************************************************************)
(* SimilarityService, called by one thread.                                *)
(***************************************************************************)
\* the strings callers compare
Texts == {"t1", "t2", "t3"}

RECURSIVE SeqsUpTo(_, _)
\* the sequences over S of length 0..n
SeqsUpTo(S, n) ==
    IF n = 0 THEN {<<>>}
    ELSE LET shorter == SeqsUpTo(S, n - 1) IN
         shorter \cup {Append(q, x) : q \in {t \in shorter : Len(t) = n - 1}, x \in S}

CandidateLists == SeqsUpTo(Texts, MaxCands)

\* model.encode: the vector of a string
Embed(text) ==
    CASE text = "t1" -> <<1, 0>>
      [] text = "t2" -> <<0, 1>>
      [] OTHER       -> <<1, 1>>

Dot(a, b) == a[1] * b[1] + a[2] * b[2]

\* lines 144-166: dot(a, b) / (norm(a) * norm(b)), kept exact as
\* sign(dot) * dot^2 * 4 / (|a|^2 * |b|^2), which orders pairs as the
\* cosine does (the norms squared are 1 or 2 here)
CosineSimilarity(a, b) ==
    LET d == Dot(a, b) IN
    ((IF d < 0 THEN -1 ELSE 1) * d * d * 4) \div (Dot(a, a) * Dot(b, b))

RECURSIVE InsertDescUnstable(_, _)
\* a plausible slip: an element goes before its equals
InsertDescUnstable(sorted, x) ==
    IF sorted = <<>> THEN <<x>>
    ELSE IF Head(sorted).score > x.score
         THEN <<Head(sorted)>> \o InsertDescUnstable(Tail(sorted), x)
         ELSE <<x>> \o sorted

RECURSIVE InsertDesc(_, _)
InsertDesc(sorted, x) ==
    IF sorted = <<>> THEN <<x>>
    ELSE IF Head(sorted).score >= x.score
         THEN <<Head(sorted)>> \o InsertDesc(Tail(sorted), x)
         ELSE <<x>> \o sorted

\* a plausible slip: the list is returned as it was built
SortNone(results) == results

RECURSIVE SortDesc(_)
\* line 141: list.sort(key = score, reverse = True), a stable sort
SortDesc(results) ==
    IF results = <<>> THEN <<>>
    ELSE InsertDesc(SortDesc(SubSeq(results, 1, Len(results) - 1)),
                    results[Len(results)])

\* lines 131-142
Ranked(to_compare, candidates) ==
    SortDesc([i \in 1..Len(candidates) |->
                [candidate |-> candidates[i],
                 score |-> CosineSimilarity(Embed(to_compare), Embed(candidates[i]))]])

\* the callers of the concurrent runs
Threads == 1..NumThreads

NoCompute ==
    [op |-> "none", to_compare |-> "none", candidates |-> <<>>, result |-> <<>>,
     error |-> "none", used |-> <<>>]

\* lines 68-70
SimInit ==
    /\ sim_model = <<>>
    /\ factory_calls = 0
    /\ factory_made = 0
    /\ sim_last = NoCompute
    /\ sim_calls = 0
    /\ sim_only_empty = TRUE
    /\ thr_pc = [t \in Threads |-> "idle"]
    /\ thr_cands = [t \in Threads |-> <<>>]
    /\ thr_made = [t \in Threads |-> <<>>]
    /\ thr_result = [t \in Threads |-> <<>>]

\* a plausible slip: the early return is missing
NoCandidatesNever(candidates) == FALSE

\* line 127: not candidates
NoCandidates(candidates) == candidates = <<>>

\* a plausible slip: the model is built on every call
NeedsModelAlways(model) == TRUE

\* line 98: self._model is None
NeedsModel(model) == model = <<>>

\* a plausible slip: the attribute is set to a placeholder before the
\* factory is called, and a raising factory leaves it there
ModelAfterRaiseHalfLoaded(model) == <<0>>

\* line 100: a raising factory leaves the assignment unreached
ModelAfterRaise(model) == model

\* lines 127-128: compute with no candidates
SimComputeEmpty ==
    /\ sim_calls < MaxComputes
    /\ \E to_compare \in Texts, candidates \in CandidateLists :
          /\ NoCandidates(candidates)
          /\ sim_last' = [NoCompute EXCEPT !.op = "compute",
                                           !.to_compare = to_compare,
                                           !.candidates = candidates]
          /\ sim_only_empty' = (sim_only_empty /\ candidates = <<>>)
    /\ sim_calls' = sim_calls + 1
    /\ UNCHANGED <<sim_model, factory_calls, factory_made>>
    /\ UNCHANGED thrVars
    /\ UNCHANGED <<malVars, regVars, svcVars, torVars, libVars>>

\* lines 127-142 with load_model (lines 98-101) finding a model: the
\* factory is not called
SimComputeLoaded ==
    /\ sim_calls < MaxComputes
    /\ ~NeedsModel(sim_model)
    /\ \E to_compare \in Texts, candidates \in CandidateLists :
          /\ ~NoCandidates(candidates)
          /\ sim_last' = [NoCompute EXCEPT !.op = "compute",
                                           !.to_compare = to_compare,
                                           !.candidates = candidates,
                                           !.result = Ranked(to_compare, candidates),
                                           !.used = sim_model]
          /\ sim_only_empty' = (sim_only_empty /\ candidates = <<>>)
    /\ sim_calls' = sim_calls + 1
    /\ UNCHANGED <<sim_model, factory_calls, factory_made>>
    /\ UNCHANGED thrVars
    /\ UNCHANGED <<malVars, regVars, svcVars, torVars, libVars>>

\* lines 127-142 with load_model finding no model: the factory is called
\* and returns a new model instance
SimComputeLoads ==
    /\ sim_calls < MaxComputes
    /\ NeedsModel(sim_model)
    /\ \E to_compare \in Texts, candidates \in CandidateLists :
          /\ ~NoCandidates(candidates)
          /\ sim_last' = [NoCompute EXCEPT !.op = "compute",
                                           !.to_compare = to_compare,
                                           !.candidates = candidates,
                                           !.result = Ranked(to_compare, candidates),
                                           !.used = <<factory_made + 1>>]
          /\ sim_only_empty' = (sim_only_empty /\ candidates = <<>>)
    /\ factory_calls' = factory_calls + 1
    /\ factory_made' = factory_made + 1
    /\ sim_model' = <<factory_made + 1>>
    /\ sim_calls' = sim_calls + 1
    /\ UNCHANGED thrVars
    /\ UNCHANGED <<malVars, regVars, svcVars, torVars, libVars>>

\* lines 127-130 with load_model finding no model and the factory raising:
\* line 100 assigns nothing and the exception leaves compute
SimComputeFactoryRaises ==
    /\ sim_calls < MaxComputes
    /\ NeedsModel(sim_model)
    /\ \E to_compare \in Texts, candidates \in CandidateLists :
          /\ ~NoCandidates(candidates)
          /\ sim_last' = [NoCompute EXCEPT !.op = "compute",
                                           !.to_compare = to_compare,
                                           !.candidates = candidates,
                                           !.error = "FactoryError"]
          /\ sim_only_empty' = (sim_only_empty /\ candidates = <<>>)
    /\ factory_calls' = factory_calls + 1
    /\ sim_calls' = sim_calls + 1
    /\ sim_model' = ModelAfterRaise(sim_model)
    /\ UNCHANGED factory_made
    /\ UNCHANGED thrVars
    /\ UNCHANGED <<malVars, regVars, svcVars, torVars, libVars>>

\* lines 88-101: load_model called by the caller itself, the factory
\* returning or raising
SimLoadModel ==
    /\ sim_calls < MaxComputes
    /\ \E ok \in BOOLEAN :
          IF ~NeedsModel(sim_model)
          THEN /\ sim_last' = [NoCompute EXCEPT !.op = "load_model"]
               /\ UNCHANGED <<sim_model, factory_calls, factory_made>>
          ELSE IF ok
          THEN /\ sim_last' = [NoCompute EXCEPT !.op = "load_model"]
               /\ factory_calls' = factory_calls + 1
               /\ factory_made' = factory_made + 1
               /\ sim_model' = <<factory_made + 1>>
          ELSE /\ sim_last' = [NoCompute EXCEPT !.op = "load_model",
                                                !.error = "FactoryError"]
               /\ factory_calls' = factory_calls + 1
               /\ sim_model' = ModelAfterRaise(sim_model)
               /\ UNCHANGED factory_made
    /\ sim_only_empty' = FALSE
    /\ sim_calls' = sim_calls + 1
    /\ UNCHANGED thrVars
    /\ UNCHANGED <<malVars, regVars, svcVars, torVars, libVars>>

(***************************************************************************)
(* SimilarityService.compute called by several threads at once: each       *)
(* thread makes one call, and the steps of load_model interleave.          *)
(***************************************************************************)
\* what the threads pass
ThreadQuery == "t3"

ThreadCandidateLists == {<<>>, <<"t1">>, <<"t2", "t3">>}

\* a guarded load: a thread waits while another is between the check and
\* the assignment
MayEnterLoadModelLocked(t) ==
    \A u \in Threads \ {t} : thr_pc[u] \notin {"line100", "line100_store"}

\* lines 98-101 acquire nothing: a thread enters load_model whatever the
\* other threads are doing
MayEnterLoadModel(t) == TRUE

\* lines 127-128 in thread t: no candidates, return []
ThrComputeEmpty(t) ==
    /\ thr_pc[t] = "idle"
    /\ \E candidates \in ThreadCandidateLists :
          /\ NoCandidates(candidates)
          /\ thr_cands' = [thr_cands EXCEPT ![t] = candidates]
    /\ thr_pc' = [thr_pc EXCEPT ![t] = "returned"]
    /\ thr_result' = [thr_result EXCEPT ![t] = << <<>> >>]
    /\ UNCHANGED <<thr_made, sim_model, factory_calls, factory_made>>
    /\ UNCHANGED <<sim_last, sim_calls, sim_only_empty>>
    /\ UNCHANGED <<malVars, regVars, svcVars, torVars, libVars>>

\* lines 127-130 in thread t: candidates given, load_model is called
ThrComputeEnter(t) ==
    /\ thr_pc[t] = "idle"
    /\ \E candidates \in ThreadCandidateLists :
          /\ ~NoCandidates(candidates)
          /\ thr_cands' = [thr_cands EXCEPT ![t] = candidates]
    /\ thr_pc' = [thr_pc EXCEPT ![t] = "line98"]
    /\ UNCHANGED <<thr_made, thr_result, sim_model, factory_calls, factory_made>>
    /\ UNCHANGED <<sim_last, sim_calls, sim_only_empty>>
    /\ UNCHANGED <<malVars, regVars, svcVars, torVars, libVars>>

\* line 98 in thread t: the read of self._model and the test
ThrCheck(t) ==
    /\ thr_pc[t] = "line98"
    /\ MayEnterLoadModel(t)
    /\ thr_pc' = [thr_pc EXCEPT ![t] = IF NeedsModel(sim_model)
                                       THEN "line100" ELSE "line131"]
    /\ UNCHANGED <<thr_cands, thr_made, thr_result>>
    /\ UNCHANGED <<sim_model, factory_calls, factory_made>>
    /\ UNCHANGED <<sim_last, sim_calls, sim_only_empty>>
    /\ UNCHANGED <<malVars, regVars, svcVars, torVars, libVars>>

\* line 100, right-hand side, in thread t: the factory is invoked and
\* returns a new model instance
ThrFactoryReturns(t) ==
    /\ thr_pc[t] = "line100"
    /\ factory_calls' = factory_calls + 1
    /\ factory_made' = factory_made + 1
    /\ thr_made' = [thr_made EXCEPT ![t] = <<factory_made + 1>>]
    /\ thr_pc' = [thr_pc EXCEPT ![t] = "line100_store"]
    /\ UNCHANGED <<thr_cands, thr_result, sim_model>>
    /\ UNCHANGED <<sim_last, sim_calls, sim_only_empty>>
    /\ UNCHANGED <<malVars, regVars, svcVars, torVars, libVars>>

\* line 100, right-hand side, in thread t: the factory is invoked and
\* raises; the exception leaves compute
ThrFactoryRaises(t) ==
    /\ thr_pc[t] = "line100"
    /\ factory_calls' = factory_calls + 1
    /\ thr_pc' = [thr_pc EXCEPT ![t] = "raised"]
    /\ UNCHANGED <<thr_cands, thr_made, thr_result, sim_model, factory_made>>
    /\ UNCHANGED <<sim_last, sim_calls, sim_only_empty>>
    /\ UNCHANGED <<malVars, regVars, svcVars, torVars, libVars>>

\* line 100, the assignment, in thread t
ThrStore(t) ==
    /\ thr_pc[t] = "line100_store"
    /\ sim_model' = thr_made[t]
    /\ thr_pc' = [thr_pc EXCEPT ![t] = "line131"]
    /\ UNCHANGED <<thr_cands, thr_made, thr_result, factory_calls, factory_made>>
    /\ UNCHANGED <<sim_last, sim_calls, sim_only_empty>>
    /\ UNCHANGED <<malVars, regVars, svcVars, torVars, libVars>>

\* lines 131-142 in thread t
ThrRank(t) ==
    /\ thr_pc[t] = "line131"
    /\ thr_result' = [thr_result EXCEPT ![t] = <<Ranked(ThreadQuery, thr_cands[t])>>]
    /\ thr_pc' = [thr_pc EXCEPT ![t] = "returned"]
    /\ UNCHANGED <<thr_cands, thr_made, sim_model, factory_calls, factory_made>>
    /\ UNCHANGED <<sim_last, sim_calls, sim_only_empty>>
    /\ UNCHANGED <<malVars, regVars, svcVars, torVars, libVars>>

(***************************************************************************)
(* _translate_status of MalApi and of AniListApi, called on its own.       *)
(***************************************************************************)
NoTranslation == [adapter |-> "none", internal_status |-> "none", result |-> <<>>]

TrInit ==
    /\ tr_last = NoTranslation
    /\ tr_prev = NoTranslation

\* mal_api.py lines 111-126
MalApiTranslateStatus ==
    /\ \E internal_status \in StatusArgs :
          tr_last' = [adapter |-> "MalApi", internal_status |-> internal_status,
                      result |-> MalTranslateStatus(internal_status)]
    /\ tr_prev' = tr_last
    /\ UNCHANGED <<fvrVars, parVars, extVars>>
    /\ UNCHANGED <<malVars, regVars, svcVars, torVars, simVars>>

\* anilist_api.py lines 99-114
AniListApiTranslateStatus ==
    /\ \E internal_status \in StatusArgs :
          tr_last' = [adapter |-> "AniListApi", internal_status |-> internal_status,
                      result |-> AniListTranslateStatus(internal_status)]
    /\ tr_prev' = tr_last
    /\ UNCHANGED <<fvrVars, parVars, extVars>>
    /\ UNCHANGED <<malVars, regVars, svcVars, torVars, simVars>>

(***************************************************************************)
(* DictWrangler.find_value_recursively, called on its own.                 *)
(***************************************************************************)
FvrInit ==
    /\ fvr_pc = "called"
    /\ fvr_data = None
    /\ fvr_key = "k"
    /\ fvr_result = None

\* the items of the payloads: a full entry, an entry that lacks every
\* field but the identifier, one whose titles are null, one without any
\* field
RawItems(parser) ==
    IF parser = "MalParser"
    THEN {MalEntry("1"), MalEntry("2"),
          Dict(<<Item("node", Dict(<<Item("id", Prim("3"))>>))>>),
          Dict(<<Item("node", Dict(<<Item("id", Prim("4")), Item("title", None),
                                     Item("status", Prim("finished_airing"))>>))>>),
          Dict(<<>>)}
    ELSE {AniListEntry("1"), AniListEntry("2"),
          Dict(<<Item("media", Dict(<<Item("id", Prim("3"))>>))>>),
          Dict(<<Item("media", Dict(<<Item("id", Prim("4")),
                                      Item("title", Dict(<<Item("romaji", None)>>)),
                                      Item("status", Prim("FINISHED"))>>))>>),
          Dict(<<>>)}

\* the payloads: the top-level field holding a list of items, directly or
\* nested as the source nests it, and payloads without the field
ParsePayloads(parser) ==
    {Dict(<<Item(TopKey(parser), List(items))>>) :
        items \in SeqsUpTo(RawItems(parser), MaxItems)}
    \cup {Dict(<<Item("data", Dict(<<Item("MediaListCollection",
              Dict(<<Item("lists", List(<<Dict(<<Item("entries", List(items))>>)>>))>>))>>))>>) :
            items \in SeqsUpTo(RawItems(parser), 1)}
    \cup {Dict(<<>>), Dict(<<Item("error", Prim("not found"))>>)}

ParInit ==
    /\ par_pc = "called"
    /\ par_parser = "MalParser"
    /\ par_metadata = Dict(<<>>)
    /\ par_result = <<>>
    /\ par_error = "none"

(***************************************************************************)
(* NyaaParser.parse_api_metadata, called on its own.  A text is the        *)
(* sequence of its characters; a link target is the sequence of its parts. *)
(***************************************************************************)
\* the value of a decimal digit
DigitValue(c) ==
    CASE c = "0" -> 0 [] c = "1" -> 1 [] c = "2" -> 2 [] c = "3" -> 3
      [] c = "4" -> 4 [] c = "5" -> 5 [] c = "6" -> 6 [] c = "7" -> 7
      [] c = "8" -> 8 [] c = "9" -> 9

Digits == {"0", "1", "2", "3", "4", "5", "6", "7", "8", "9"}

RECURSIVE DecimalValue(_)
DecimalValue(s) ==
    IF s = <<>> THEN 0
    ELSE 10 * DecimalValue(SubSeq(s, 1, Len(s) - 1)) + DigitValue(s[Len(s)])

\* lines 77-78, int(text): surrounding whitespace is dropped, what is left
\* must be decimal digits
IntOf(text) ==
    LET s == Strip(text) IN
    IF s # <<>> /\ \A i \in 1..Len(s) : s[i] \in Digits
    THEN [error |-> "none", value |-> DecimalValue(s)]
    ELSE [error |-> "ValueError", value |-> 0]

RECURSIVE DigitRun(_, _)
\* the longest run of digits of href that starts at position i
DigitRun(href, i) ==
    IF i <= Len(href) /\ href[i] \in Digits
    THEN <<href[i]>> \o DigitRun(href, i + 1)
    ELSE <<>>

\* line 73, re.search("/view/([0-9]+)", href): the positions where the
\* pattern matches
ViewMatches(href) ==
    {i \in 1..Len(href) : href[i] = "/view/" /\ DigitRun(href, i + 1) # <<>>}

\* group(1) of the leftmost match
ViewId(href) ==
    LET i == CHOOSE j \in ViewMatches(href) : \A k \in ViewMatches(href) : j <= k
    IN DigitRun(href, i + 1)

\* line 74, text.replace("\n", "")
RECURSIVE DropNewlines(_)
DropNewlines(text) ==
    IF text = <<>> THEN <<>>
    ELSE IF Head(text) = "\n" THEN DropNewlines(Tail(text))
    ELSE <<Head(text)>> \o DropNewlines(Tail(text))

\* line 75, download_links[0]
FirstLink(links) == links[1]

\* lines 68-79: one row of the table body.  cells is the number of td
\* elements of the row; the texts and links of a cell the row lacks are
\* never read
ParseRow(row) ==
    LET fails(e) == [error |-> e, value |-> None] IN
    IF row.cells < 3 THEN fails("IndexError")
    ELSE IF row.title_links = <<>> THEN fails("IndexError")
    ELSE IF ViewMatches(row.title_links[1]) = {} THEN fails("AttributeError")
    ELSE IF row.download_links = <<>> THEN fails("IndexError")
    ELSE IF row.cells < 6 THEN fails("IndexError")
    ELSE IF IntOf(row.seeders).error # "none" THEN fails("ValueError")
    ELSE IF row.cells < 7 THEN fails("IndexError")
    ELSE IF IntOf(row.leechers).error # "none" THEN fails("ValueError")
    ELSE [error |-> "none",
          value |-> [torrent_id |-> ViewId(row.title_links[1]),
                     title |-> DropNewlines(row.title),
                     download_url |-> FirstLink(row.download_links),
                     size |-> row.size,
                     seeders |-> IntOf(row.seeders).value,
                     leechers |-> IntOf(row.leechers).value]]

RECURSIVE NyaaParseRowsKeeping(_, _)
\* a loop over the rows that keeps the records of the rows before a
\* malformed one
NyaaParseRowsKeeping(rows, res) ==
    IF rows = <<>> THEN [error |-> "none", records |-> res]
    ELSE IF ParseRow(Head(rows)).error # "none"
    THEN [error |-> "none", records |-> res]
    ELSE NyaaParseRowsKeeping(Tail(rows), Append(res, ParseRow(Head(rows)).value))

RECURSIVE NyaaParseRows(_, _)
\* lines 66-80: the loop over the rows; res is the list built so far
NyaaParseRows(rows, res) ==
    IF rows = <<>> THEN [error |-> "none", records |-> res]
    ELSE IF ParseRow(Head(rows)).error # "none"
    THEN [error |-> ParseRow(Head(rows)).error, records |-> <<>>]
    ELSE NyaaParseRows(Tail(rows), Append(res, ParseRow(Head(rows)).value))

\* lines 65-80
NyaaParseApiMetadata(doc) ==
    IF ~doc.has_tbody THEN [error |-> "AttributeError", records |-> <<>>]
    ELSE NyaaParseRows(doc.rows, <<>>)

\* a well-formed row as the site writes it
GoodRow ==
    [cells |-> 7, title |-> <<"\n", "A", "\n">>,
     title_links |-> <<<<"/view/", "1", "2">>>>,
     download_links |-> <<<<"/download/", "1", "2">>, <<"magnet:">>>>,
     size |-> <<"1", "G">>, seeders |-> <<"1", "5", "0">>, leechers |-> <<"2", "5">>]

\* a well-formed row whose title cell starts with a link to the comments
\* and whose counts are padded
CommentedRow ==
    [GoodRow EXCEPT !.title = <<"B">>,
                    !.title_links = <<<<"/view/", "7", "#">>, <<"/view/", "7">>>>,
                    !.download_links = <<<<"/download/", "7">>>>,
                    !.seeders = <<" ", "0", "\n">>, !.leechers = <<"0", "3">>]

\* the rows of the documents: the well-formed rows, and rows that lack one
\* part of the structure each
NyaaRowSet ==
    {GoodRow, CommentedRow,
     [GoodRow EXCEPT !.cells = 2],
     [GoodRow EXCEPT !.cells = 5],
     [GoodRow EXCEPT !.cells = 6],
     [GoodRow EXCEPT !.title_links = <<>>],
     [GoodRow EXCEPT !.title_links = <<<<"#">>>>],
     [GoodRow EXCEPT !.title_links = <<<<"/view/">>, <<"/view/", "1">>>>],
     [GoodRow EXCEPT !.download_links = <<>>],
     [GoodRow EXCEPT !.seeders = <<"1", "x">>],
     [GoodRow EXCEPT !.leechers = <<>>]}

\* the documents: with a table body of some rows, or without one
NyaaDocs ==
    {[has_tbody |-> TRUE, rows |-> rows] : rows \in SeqsUpTo(NyaaRowSet, MaxRows)}
    \cup {[has_tbody |-> FALSE, rows |-> <<>>]}

NyInit ==
    /\ ny_pc = "called"
    /\ ny_doc = [has_tbody |-> TRUE, rows |-> <<>>]
    /\ ny_result = <<>>
    /\ ny_error = "none"

\* nyaa_parser.py lines 65-80: the call returns its records
NyaaParseReturns ==
    /\ ny_pc = "called"
    /\ NyaaParseApiMetadata(ny_doc).error = "none"
    /\ ny_result' = NyaaParseApiMetadata(ny_doc).records
    /\ ny_pc' = "returned"
    /\ UNCHANGED <<ny_doc, ny_error>>
    /\ UNCHANGED <<coreVars, anVars, rtVars, migVars, dbVars>>

\* the same lines: the call raises
NyaaParseRaises ==
    /\ ny_pc = "called"
    /\ NyaaParseApiMetadata(ny_doc).error # "none"
    /\ ny_error' = NyaaParseApiMetadata(ny_doc).error
    /\ ny_pc' = "raised"
    /\ UNCHANGED <<ny_doc, ny_result>>
    /\ UNCHANGED <<coreVars, anVars, rtVars, migVars, dbVars>>

(***************************************************************************)
(* The Anime dataclass (anime_model.py lines 10-35), as its callers use    *)
(* it: constructed with keyword arguments, then read and assigned to.      *)
(***************************************************************************)
\* the values callers give to a field
FieldValues(f) ==
    CASE f = "anime_id" -> {Prim("1"), Prim("2")}
      [] f = "source" -> {Prim("MalParser"), Prim("TestSource")}
      [] f = "title_romaji" -> {Prim("Title"), Prim("Other")}
      [] f = "title_english" -> {Prim("Title EN"), None}
      [] f = "status" -> {Prim("RELEASING"), Prim("FINISHED")}
      [] f = "episodes" -> {Prim("12"), None}

\* the fields the parsers, the mappers and the tests give to Anime(...)
CallerFields ==
    {"anime_id", "source", "title_romaji", "title_english", "status", "episodes"}

\* the keyword arguments of the constructions: the six fields, the six
\* without episodes, the fields the dataclass declares, those without
\* episodes, and the declared ones with the status left out
AnimeKeywordArgs ==
    [anime_id : FieldValues("anime_id"), source : FieldValues("source"),
     title_romaji : FieldValues("title_romaji"),
     title_english : FieldValues("title_english"),
     status : FieldValues("status"), episodes : FieldValues("episodes")]
    \cup [anime_id : FieldValues("anime_id"), source : FieldValues("source"),
          title_romaji : FieldValues("title_romaji"),
          title_english : FieldValues("title_english"),
          status : FieldValues("status")]
    \cup [title_romaji : FieldValues("title_romaji"),
          title_english : FieldValues("title_english"),
          status : FieldValues("status"), episodes : FieldValues("episodes")]
    \cup [title_romaji : FieldValues("title_romaji"),
          title_english : FieldValues("title_english"),
          status : FieldValues("status")]
    \cup [title_romaji : FieldValues("title_romaji"),
          title_english : FieldValues("title_english"),
          episodes : FieldValues("episodes")]

AnInit ==
    /\ an_op = "none"
    /\ an_kwargs = <<>>
    /\ an_obj = <<>>
    /\ an_error = "none"

\* Anime(**kwargs)
AnimeConstruct ==
    /\ \E kwargs \in AnimeKeywordArgs :
          /\ an_kwargs' = kwargs
          /\ an_error' = AnimeNew(kwargs).error
          /\ an_obj' = IF AnimeNew(kwargs).error = "none"
                       THEN <<AnimeNew(kwargs).value>> ELSE <<>>
    /\ an_op' = "new"
    /\ UNCHANGED <<coreVars, nyVars, rtVars, migVars, dbVars>>

\* anime.<field> = value on a frozen dataclass: the generated __setattr__
\* raises FrozenInstanceError, an AttributeError
AnimeSetattr ==
    /\ an_obj # <<>>
    /\ an_op' = "setattr"
    /\ an_error' = "AttributeError"
    /\ UNCHANGED <<an_kwargs, an_obj>>
    /\ UNCHANGED <<coreVars, nyVars, rtVars, migVars, dbVars>>

(***************************************************************************)
(* HttpClient._create_session (http_client.py lines 49-64): the session    *)
(* the adapters send through, with Retry(total=3, backoff_factor=0.3,      *)
(* status_forcelist={500, 502, 503, 504}) mounted and every other setting  *)
(* of Retry at its default.                                                *)
(***************************************************************************)
\* line 60, total
RetryTotal == 3

\* a plausible slip: a client-error status put in the list
StatusForcelistWithNotFound == {404, 500, 502, 503, 504}

\* line 60, status_forcelist
StatusForcelist == {500, 502, 503, 504}

\* Retry.DEFAULT_ALLOWED_METHODS, the methods retried on a status or a
\* read error: the idempotent ones
AllowedMethods == {"GET", "HEAD", "PUT", "DELETE", "OPTIONS", "TRACE"}

\* Retry.RETRY_AFTER_STATUS_CODES, the statuses retried when the response
\* carries a Retry-After header (respect_retry_after_header defaults to
\* True)
RetryAfterStatusCodes == {413, 429, 503}

\* what the server or the network does for one request
Answers ==
    [kind : {"response"}, code : {200, 404, 429, 500, 503}, retry_after : BOOLEAN]
    \cup [kind : {"connect_error", "read_error"}, code : {0}, retry_after : {FALSE}]

\* Retry.is_retry(method, status_code, has_retry_after)
IsRetry(method, a, total) ==
    /\ method \in AllowedMethods
    /\ \/ a.code \in StatusForcelist
       \/ total # 0 /\ a.retry_after /\ a.code \in RetryAfterStatusCodes

\* whether urlopen goes on to Retry.increment after the answer: after a
\* status is_retry decides; a connection error is retried for every
\* method, a read error for the allowed methods
GoesToIncrement(method, a, total) ==
    CASE a.kind = "response" -> IsRetry(method, a, total)
      [] a.kind = "connect_error" -> TRUE
      [] a.kind = "read_error" -> method \in AllowedMethods

\* Retry.is_exhausted() of the object increment builds
Exhausted(total) == total - 1 < 0

RtInit ==
    /\ rt_pc = "idle"
    /\ rt_method = "GET"
    /\ rt_total = RetryTotal
    /\ rt_answers = <<>>
    /\ rt_outcome = "none"
    /\ rt_calls = 0

\* the caller is not inside a call
RtReady == rt_pc \in {"idle", "done"} /\ rt_calls < MaxCalls

\* anime_service.py lines 80-81, torrent_service.py lines 77-78: the call
\* is turned down before any request
CoreRejects ==
    /\ RtReady
    /\ rt_pc' = "done"
    /\ rt_outcome' = "ValueError"
    /\ rt_answers' = <<>>
    /\ rt_total' = RetryTotal
    /\ rt_calls' = rt_calls + 1
    /\ UNCHANGED rt_method
    /\ UNCHANGED <<coreVars, nyVars, anVars, migVars, dbVars>>

\* http_client.py lines 89-108: session.get or session.post sends the
\* first request of a call (GET for MyAnimeList and the torrent site,
\* POST for AniList)
SessionSend ==
    /\ RtReady
    /\ \E method \in {"GET", "POST"} : rt_method' = method
    /\ rt_pc' = "sent"
    /\ rt_outcome' = "none"
    /\ rt_answers' = <<>>
    /\ rt_total' = RetryTotal
    /\ rt_calls' = rt_calls + 1
    /\ UNCHANGED <<coreVars, nyVars, anVars, migVars, dbVars>>

\* the adapter sends the request again
SessionRetries ==
    /\ rt_pc = "sent"
    /\ \E a \in Answers :
          /\ GoesToIncrement(rt_method, a, rt_total)
          /\ ~Exhausted(rt_total)
          /\ rt_answers' = Append(rt_answers, a)
    /\ rt_total' = rt_total - 1
    /\ UNCHANGED <<rt_pc, rt_method, rt_outcome, rt_calls>>
    /\ UNCHANGED <<coreVars, nyVars, anVars, migVars, dbVars>>

\* the retries are used up: MaxRetryError, which requests raises as
\* RetryError after statuses and as ConnectionError after errors
SessionGivesUp ==
    /\ rt_pc = "sent"
    /\ \E a \in Answers :
          /\ GoesToIncrement(rt_method, a, rt_total)
          /\ Exhausted(rt_total)
          /\ rt_answers' = Append(rt_answers, a)
          /\ rt_outcome' = IF a.kind = "response" THEN "RetryError"
                           ELSE "ConnectionError"
    /\ rt_pc' = "done"
    /\ UNCHANGED <<rt_method, rt_total, rt_calls>>
    /\ UNCHANGED <<coreVars, nyVars, anVars, migVars, dbVars>>

\* a read error of a request that is not retried leaves the call
SessionRaises ==
    /\ rt_pc = "sent"
    /\ \E a \in Answers :
          /\ a.kind # "response"
          /\ ~GoesToIncrement(rt_method, a, rt_total)
          /\ rt_answers' = Append(rt_answers, a)
    /\ rt_outcome' = "ConnectionError"
    /\ rt_pc' = "done"
    /\ UNCHANGED <<rt_method, rt_total, rt_calls>>
    /\ UNCHANGED <<coreVars, nyVars, anVars, migVars, dbVars>>

\* the session hands a response to the core
SessionResponds ==
    /\ rt_pc = "sent"
    /\ \E a \in Answers :
          /\ a.kind = "response"
          /\ ~GoesToIncrement(rt_method, a, rt_total)
          /\ rt_answers' = Append(rt_answers, a)
    /\ rt_pc' = "responded"
    /\ UNCHANGED <<rt_method, rt_total, rt_outcome, rt_calls>>
    /\ UNCHANGED <<coreVars, nyVars, anVars, migVars, dbVars>>

\* nyaa_api.py lines 72-73 and torrent_service.py lines 83-85 (the other
\* adapters alike): raise_for_status, then the parser, which returns or
\* raises; the call ends either way
CoreHandles ==
    /\ rt_pc = "responded"
    /\ \E parses \in BOOLEAN :
          rt_outcome' =
             IF RaisesForStatus(rt_answers[Len(rt_answers)].code) THEN "HTTPError"
             ELSE IF parses THEN "returned" ELSE "ParseFailure"
    /\ rt_pc' = "done"
    /\ UNCHANGED <<rt_method, rt_total, rt_answers, rt_calls>>
    /\ UNCHANGED <<coreVars, nyVars, anVars, migVars, dbVars>>

(***************************************************************************)
(* init_db and apply_migrations (database.py lines 26-58).  A filename is  *)
(* the sequence of its characters, its extension being one element.        *)
(***************************************************************************)
\* the order of the characters in Python's string comparison
CharCode(c) ==
    CASE c = ".py" -> 460 [] c = ".sql" -> 461 [] c = ".txt" -> 462
      [] c = "0" -> 480 [] c = "1" -> 490 [] c = "2" -> 500
      [] c = "_" -> 950 [] c = "a" -> 970

RECURSIVE NameLess(_, _)
\* a < b for two filenames
NameLess(a, b) ==
    IF b = <<>> THEN FALSE
    ELSE IF a = <<>> THEN TRUE
    ELSE IF Head(a) # Head(b) THEN CharCode(Head(a)) < CharCode(Head(b))
    ELSE NameLess(Tail(a), Tail(b))

RECURSIVE Sorted(_)
\* line 33, sorted(names)
Sorted(names) ==
    IF names = {} THEN <<>>
    ELSE LET least == CHOOSE n \in names : \A o \in names \ {n} : NameLess(n, o)
         IN <<least>> \o Sorted(names \ {least})

\* line 34, name.endswith(".sql")
EndsWithSql(name) == name # <<>> /\ name[Len(name)] = ".sql"

\* what the package may hold: migration scripts, and files that are none
PackageNames ==
    {<<"1", ".sql">>, <<"2", ".sql">>, <<"1", "0", ".sql">>, <<"2", "a", ".sql">>,
     <<"_", ".py">>, <<"a", ".txt">>}

\* a plausible slip: the table is not read
AlreadyAppliedNone(table) == {}

\* lines 54-57: the set of the filenames in schema_migrations
AlreadyApplied(table) == table

RECURSIVE Unapplied(_, _)
\* lines 33-35: the names the loop does not skip, in the order of the loop
Unapplied(names, applied) ==
    IF names = <<>> THEN <<>>
    ELSE IF ~EndsWithSql(Head(names)) \/ Head(names) \in applied
    THEN Unapplied(Tail(names), applied)
    ELSE <<Head(names)>> \o Unapplied(Tail(names), applied)

MigInit ==
    /\ mig_package = {}
    /\ schema_migrations = {}
    /\ mig_executed = <<>>
    /\ mig_calls = 0

\* lines 46-58 and 26-43: one call of init_db; every script the loop does
\* not skip is executed and then recorded, and the call commits
InitDb ==
    /\ mig_calls < MaxInits
    /\ LET todo == Unapplied(Sorted(mig_package), AlreadyApplied(schema_migrations))
       IN /\ mig_executed' = mig_executed \o todo
          /\ schema_migrations' =
                schema_migrations \cup {todo[i] : i \in 1..Len(todo)}
    /\ mig_calls' = mig_calls + 1
    /\ UNCHANGED mig_package
    /\ UNCHANGED <<coreVars, nyVars, anVars, rtVars, dbVars>>

(***************************************************************************)
(* The Torrent dataclass, the mappers (mappers.py) and the repositories    *)
(* (sqlite_anime_repository.py, sqlite_torrent_repository.py).  The tables *)
(* are created by the migration scripts; their primary keys are those the  *)
(* specification of the persistence collaborator names.                    *)
(***************************************************************************)
\* torrent_model.py lines 34-39
TorrentFields ==
    {"torrent_id", "title", "download_url", "size", "seeders", "leechers"}

\* Torrent(**kwargs): every declared field is required, no other is taken
TorrentNew(kwargs) ==
    IF DOMAIN kwargs = TorrentFields
    THEN [error |-> "none", value |-> kwargs]
    ELSE [error |-> "TypeError", value |-> <<>>]

\* the columns of table anime (UPSERT_SQL) and of table torrent
\* (INSERT_SQL)
AnimeColumns ==
    {"anime_id", "source", "title_romaji", "title_english", "status", "episodes"}

TorrentColumns == TorrentFields \cup {"anime_id", "anime_source"}

\* the primary key of table anime and that of table torrent
AnimeKey == {"anime_id", "source"}

TorrentKey == {"torrent_id"}

\* mappers.py lines 31-40 and 57-68: the tuple of the attributes named by
\* the columns; reading an attribute the object lacks raises
ToParams(obj, columns) ==
    IF columns \subseteq DOMAIN obj
    THEN [error |-> "none", value |-> [c \in columns |-> obj[c]]]
    ELSE [error |-> "AttributeError", value |-> <<>>]

\* mappers.py lines 19-28
RowToAnime(row) == AnimeNew([c \in AnimeColumns |-> row[c]])

\* mappers.py lines 43-54: the title is stripped and download_url is given
\* the list ["download_url"]
RowToTorrent(row) ==
    TorrentNew([c \in TorrentColumns |->
                   IF c = "title" THEN Strip(row[c])
                   ELSE IF c = "download_url" THEN <<"download_url">>
                   ELSE row[c]])

\* the mapper of the table that has the columns
RowTo(columns, row) ==
    IF columns = AnimeColumns THEN RowToAnime(row) ELSE RowToTorrent(row)

\* INSERT OR REPLACE of one row
Upsert(table, row, key) ==
    {r \in table : \E c \in key : r[c] # row[c]} \cup {row}

RECURSIVE UpsertAll(_, _, _)
\* executemany of INSERT OR REPLACE over the rows, in order
UpsertAll(table, rows, key) ==
    IF rows = <<>> THEN table
    ELSE UpsertAll(Upsert(table, Head(rows), key), Tail(rows), key)

\* save_batch of either repository (sqlite_anime_repository.py lines
\* 45-62, sqlite_torrent_repository.py lines 44-61): an empty batch
\* returns at once; the parameters are built outside the try; executemany
\* runs in a transaction, and a rejection by the database rolls it back
\* and is raised as AnifeedError
SaveBatch(items, columns, table, key, rejects) ==
    IF items = <<>>
    THEN [error |-> "none", table |-> table, statements |-> 0]
    ELSE IF \E i \in 1..Len(items) : ToParams(items[i], columns).error # "none"
    THEN [error |-> "AttributeError", table |-> table, statements |-> 0]
    ELSE IF rejects
    THEN [error |-> "AnifeedError", table |-> table, statements |-> 1]
    ELSE [error |-> "none",
          table |-> UpsertAll(table,
                              [i \in 1..Len(items) |-> ToParams(items[i], columns).value],
                              key),
          statements |-> 1]

\* load of either repository (lines 64-78 and 63-77): every row of the
\* table goes through the mapper; the records are given as a set, without
\* the order of ORDER BY
Load(table, columns) ==
    IF \E r \in table : RowTo(columns, r).error # "none"
    THEN [error |-> "TypeError", result |-> {}]
    ELSE [error |-> "none", result |-> {RowTo(columns, r).value : r \in table}]

\* the Anime records that can be constructed
Animes ==
    {AnimeNew(kwargs).value : kwargs \in {kw \in AnimeKeywordArgs : Accepts(kw)}}

\* the Torrent records the parser builds from the well-formed rows, and
\* one with the identifier of the first and other counts
Torrents ==
    {ParseRow(GoodRow).value, ParseRow(CommentedRow).value,
     [ParseRow(GoodRow).value EXCEPT !.seeders = 7, !.title = <<" ", "A">>]}

NoCall == [op |-> "none", arg |-> <<>>, error |-> "none", result |-> <<>>,
           before |-> {}]

NoRun == [op |-> "none"]

DbInit ==
    /\ anime_table = {}
    /\ torrent_table = {}
    /\ db_writes = 0
    /\ db_last = NoCall
    /\ db_calls = 0
    /\ main_last = NoRun

\* SQLiteAnimeRepository.save_batch
AnimeSaveBatch ==
    /\ db_calls < MaxCalls
    /\ \E animes \in SeqsUpTo(Animes, MaxBatch), rejects \in BOOLEAN :
          LET out == SaveBatch(animes, AnimeColumns, anime_table, AnimeKey, rejects)
          IN /\ anime_table' = out.table
             /\ db_writes' = db_writes + out.statements
             /\ db_last' = [op |-> "anime.save_batch", arg |-> animes,
                            error |-> out.error, result |-> <<>>,
                            before |-> anime_table]
    /\ db_calls' = db_calls + 1
    /\ UNCHANGED <<torrent_table, main_last>>
    /\ UNCHANGED <<coreVars, nyVars, anVars, rtVars, migVars>>

\* SQLiteTorrentRepository.save_batch
TorrentSaveBatch ==
    /\ db_calls < MaxCalls
    /\ \E torrents \in SeqsUpTo(Torrents, MaxBatch), rejects \in BOOLEAN :
          LET out == SaveBatch(torrents, TorrentColumns, torrent_table, TorrentKey,
                               rejects)
          IN /\ torrent_table' = out.table
             /\ db_writes' = db_writes + out.statements
             /\ db_last' = [op |-> "torrent.save_batch", arg |-> torrents,
                            error |-> out.error, result |-> <<>>,
                            before |-> torrent_table]
    /\ db_calls' = db_calls + 1
    /\ UNCHANGED <<anime_table, main_last>>
    /\ UNCHANGED <<coreVars, nyVars, anVars, rtVars, migVars>>

\* SQLiteAnimeRepository.load
AnimeLoad ==
    /\ db_calls < MaxCalls
    /\ db_last' = [op |-> "anime.load", arg |-> <<>>,
                   error |-> Load(anime_table, AnimeColumns).error,
                   result |-> Load(anime_table, AnimeColumns).result,
                   before |-> anime_table]
    /\ db_calls' = db_calls + 1
    /\ UNCHANGED <<anime_table, torrent_table, db_writes, main_last>>
    /\ UNCHANGED <<coreVars, nyVars, anVars, rtVars, migVars>>

\* SQLiteTorrentRepository.load
TorrentLoad ==
    /\ db_calls < MaxCalls
    /\ db_last' = [op |-> "torrent.load", arg |-> <<>>,
                   error |-> Load(torrent_table, TorrentColumns).error,
                   result |-> Load(torrent_table, TorrentColumns).result,
                   before |-> torrent_table]
    /\ db_calls' = db_calls + 1
    /\ UNCHANGED <<anime_table, torrent_table, db_writes, main_last>>
    /\ UNCHANGED <<coreVars, nyVars, anVars, rtVars, migVars>>

\* a record is turned into parameters, the parameters are stored as a row
\* and the row is turned into a record again
RoundTrip(obj, columns) ==
    IF ToParams(obj, columns).error # "none"
    THEN [error |-> ToParams(obj, columns).error, result |-> <<>>]
    ELSE [error |-> RowTo(columns, ToParams(obj, columns).value).error,
          result |-> RowTo(columns, ToParams(obj, columns).value).value]

\* anime_to_params, then row_to_anime on the stored row
AnimeRoundTrip ==
    /\ db_calls < MaxCalls
    /\ \E anime \in Animes :
          db_last' = [op |-> "anime.roundtrip", arg |-> anime,
                      error |-> RoundTrip(anime, AnimeColumns).error,
                      result |-> RoundTrip(anime, AnimeColumns).result,
                      before |-> {}]
    /\ db_calls' = db_calls + 1
    /\ UNCHANGED <<anime_table, torrent_table, db_writes, main_last>>
    /\ UNCHANGED <<coreVars, nyVars, anVars, rtVars, migVars>>

\* torrent_to_params, then row_to_torrent on the stored row
TorrentRoundTrip ==
    /\ db_calls < MaxCalls
    /\ \E torrent \in Torrents :
          db_last' = [op |-> "torrent.roundtrip", arg |-> torrent,
                      error |-> RoundTrip(torrent, TorrentColumns).error,
                      result |-> RoundTrip(torrent, TorrentColumns).result,
                      before |-> {}]
    /\ db_calls' = db_calls + 1
    /\ UNCHANGED <<anime_table, torrent_table, db_writes, main_last>>
    /\ UNCHANGED <<coreVars, nyVars, anVars, rtVars, migVars>>

\* the documents the torrent site answers a search with
MainDocs ==
    {[has_tbody |-> FALSE, rows |-> <<>>],
     [has_tbody |-> TRUE, rows |-> <<>>],
     [has_tbody |-> TRUE, rows |-> <<GoodRow>>],
     [has_tbody |-> TRUE, rows |-> <<GoodRow, CommentedRow>>],
     [has_tbody |-> TRUE, rows |-> <<[GoodRow EXCEPT !.cells = 2]>>]}

\* main.py lines 46-60, from the list the anime service returned or the
\* error it raised.  A non-empty list is saved and loaded, then the title
\* of the first anime is searched (the loop ends at the break of line 60;
\* the title is one the source wrote and is taken as not blank) and the
\* torrents are handed to save_batch with the keywords anime_id and
\* anime_source, which save_batch does not take.  Every exception is
\* raised again.
Main(fetched, found, rejects) ==
    LET stay == [anime_table |-> anime_table, torrent_table |-> torrent_table,
                 statements |-> 0]
        saved == SaveBatch(fetched.records, AnimeColumns, anime_table, AnimeKey,
                           rejects)
        kept == [anime_table |-> saved.table, torrent_table |-> torrent_table,
                 statements |-> saved.statements]
    IN
    IF fetched.error # "none"
    THEN [error |-> fetched.error, steps |-> <<"fetch">>] @@ stay
    ELSE IF fetched.records = <<>>
    THEN [error |-> "none", steps |-> <<"fetch">>] @@ stay
    ELSE IF saved.error # "none"
    THEN [error |-> saved.error, steps |-> <<"fetch", "anime.save_batch">>] @@ kept
    ELSE IF Load(saved.table, AnimeColumns).error # "none"
    THEN [error |-> Load(saved.table, AnimeColumns).error,
          steps |-> <<"fetch", "anime.save_batch", "anime.load">>] @@ kept
    ELSE IF found.error # "none"
    THEN [error |-> found.error,
          steps |-> <<"fetch", "anime.save_batch", "anime.load", "search">>] @@ kept
    ELSE [error |-> IF {"anime_id", "source"} \subseteq DOMAIN fetched.records[1]
                    THEN "TypeError" ELSE "AttributeError",
          steps |-> <<"fetch", "anime.save_batch", "anime.load", "search",
                      "torrent.save_batch">>] @@ kept

\* what the list source answers a run with: no answer, or a payload with
\* no list, an empty list, one entry or two
MainServed(parser) ==
    {[answered |-> FALSE, payload |-> Dict(<<>>)]}
    \cup {[answered |-> TRUE, payload |-> Dict(<<>>)],
          [answered |-> TRUE,
           payload |-> Dict(<<Item(TopKey(parser),
                                   List(<<CHOOSE e \in RawItems(parser) : TRUE,
                                          CHOOSE e \in RawItems(parser) : TRUE>>))>>)]}
    \cup {[answered |-> TRUE, payload |-> Dict(<<Item(TopKey(parser), List(items))>>)] :
            items \in SeqsUpTo(RawItems(parser), 1)}

\* what the torrent site answers a search with: no answer, or a document
MainSites ==
    {[answered |-> FALSE, doc |-> [has_tbody |-> FALSE, rows |-> <<>>]]}
    \cup {[answered |-> TRUE, doc |-> doc] : doc \in MainDocs}

\* one run of main
MainRun ==
    /\ db_calls < MaxCalls
    /\ \E parser \in {"MalParser", "AniListParser"}, rejects \in BOOLEAN :
        \E served \in MainServed(parser), site \in MainSites :
          LET fetched == IF served.answered
                         THEN ParseApiMetadata(parser, served.payload)
                         ELSE [error |-> "HTTPError", records |-> <<>>]
              found == IF site.answered THEN NyaaParseApiMetadata(site.doc)
                       ELSE [error |-> "HTTPError", records |-> <<>>]
              out == Main(fetched, found, rejects)
          IN /\ anime_table' = out.anime_table
             /\ torrent_table' = out.torrent_table
             /\ db_writes' = db_writes + out.statements
             /\ main_last' = [op |-> "main", parser |-> parser,
                              answered |-> served.answered,
                              payload |-> served.payload,
                              site_answered |-> site.answered, doc |-> site.doc,
                              rejects |-> rejects,
                              fetched |-> fetched.records,
                              error |-> out.error, steps |-> out.steps,
                              anime_before |-> anime_table,
                              torrent_before |-> torrent_table]
    /\ db_calls' = db_calls + 1
    /\ UNCHANGED db_last
    /\ UNCHANGED <<coreVars, nyVars, anVars, rtVars, migVars>>

ExtInit == NyInit /\ AnInit /\ RtInit /\ MigInit /\ DbInit

LibInit == TrInit /\ FvrInit /\ ParInit /\ ExtInit

\* mal_parser.py lines 53-66, anilist_parser.py lines 58-71: the call
\* returns its records
ParseReturns ==
    /\ par_pc = "called"
    /\ ParseApiMetadata(par_parser, par_metadata).error = "none"
    /\ par_result' = ParseApiMetadata(par_parser, par_metadata).records
    /\ par_pc' = "returned"
    /\ UNCHANGED <<par_parser, par_metadata, par_error, trVars, fvrVars, extVars>>
    /\ UNCHANGED <<malVars, regVars, svcVars, torVars, simVars>>

\* the same lines: the call raises
ParseRaises ==
    /\ par_pc = "called"
    /\ ParseApiMetadata(par_parser, par_metadata).error # "none"
    /\ par_error' = ParseApiMetadata(par_parser, par_metadata).error
    /\ par_pc' = "raised"
    /\ UNCHANGED <<par_parser, par_metadata, par_result, trVars, fvrVars, extVars>>
    /\ UNCHANGED <<malVars, regVars, svcVars, torVars, simVars>>

\* commons.py lines 78-116: the call returns
FindValue ==
    /\ fvr_pc = "called"
    /\ fvr_result' = FindValueRecursively(fvr_data, fvr_key)
    /\ fvr_pc' = "returned"
    /\ UNCHANGED <<fvr_data, fvr_key, trVars, parVars, extVars>>
    /\ UNCHANGED <<malVars, regVars, svcVars, torVars, simVars>>

Init == MalInit /\ RegInit /\ SvcInit /\ TorInit /\ SimInit /\ LibInit

NextMal == MalCall \/ MalPage

SpecMal == Init /\ [][NextMal]_vars

\* the call runs to completion once started
SpecMalFair == SpecMal /\ WF_vars(MalPage)

NextRegistry == Register \/ Create \/ AnimeServiceNew

SpecRegistry == Init /\ [][NextRegistry]_vars

\* what AnimeService.__init__ leaves behind for a registered source
ServiceFor(source) ==
    <<[source |-> source, api |-> FactoryMakes(Get(registry, Lower(source))[1]).api,
       parser |-> FactoryMakes(Get(registry, Lower(source))[1]).parser]>>

\* an AnimeService for one of the built-in sources and a TorrentService
\* have been constructed
InitService ==
    /\ MalInit /\ SvcInit /\ TorInit /\ SimInit /\ LibInit
    /\ registry = << [key |-> NameAnilist, factory |-> "AniListFactory"],
                     [key |-> NameMal, factory |-> "MalFactory"] >>
    /\ last_op = NoOp
    /\ registered = {}
    /\ latest = {}
    /\ svc \in {ServiceFor(NameAnilist), ServiceFor(NameMal)}

NextService ==
    \/ AnimeServiceRejected
    \/ AnimeServiceViaMal
    \/ AnimeServiceMalPage
    \/ AnimeServiceViaAniList
    \/ TorrentSearchRejected
    \/ TorrentSearch

SpecService == InitService /\ [][NextService]_vars

NextSimilarity ==
    \/ SimComputeEmpty
    \/ SimComputeLoaded
    \/ SimComputeLoads
    \/ SimComputeFactoryRaises
    \/ SimLoadModel

SpecSimilarity == Init /\ [][NextSimilarity]_vars

NextConcurrent ==
    \E t \in Threads :
        \/ ThrComputeEmpty(t)
        \/ ThrComputeEnter(t)
        \/ ThrCheck(t)
        \/ ThrFactoryReturns(t)
        \/ ThrFactoryRaises(t)
        \/ ThrStore(t)
        \/ ThrRank(t)

SpecConcurrent == Init /\ [][NextConcurrent]_vars

NextTranslate == MalApiTranslateStatus \/ AniListApiTranslateStatus

SpecTranslate == Init /\ [][NextTranslate]_vars

\* find_value_recursively has been called with some data and some key
InitExtract ==
    /\ MalInit /\ RegInit /\ SvcInit /\ TorInit /\ SimInit /\ TrInit /\ ParInit
    /\ ExtInit
    /\ fvr_pc = "called"
    /\ fvr_data \in JsonValues(MaxDepth)
    /\ fvr_key \in TargetKeys
    /\ fvr_result = None

NextExtract == FindValue

SpecExtract == InitExtract /\ [][NextExtract]_vars

\* parse_api_metadata of one of the parsers has been called with a payload
InitParse ==
    /\ MalInit /\ RegInit /\ SvcInit /\ TorInit /\ SimInit /\ TrInit /\ FvrInit
    /\ ExtInit
    /\ par_pc = "called"
    /\ par_parser \in {"MalParser", "AniListParser"}
    /\ par_metadata \in ParsePayloads(par_parser)
    /\ par_result = <<>>
    /\ par_error = "none"

NextParse == ParseReturns \/ ParseRaises

SpecParse == InitParse /\ [][NextParse]_vars

\* NyaaParser.parse_api_metadata has been called with a document
InitNyaa ==
    /\ MalInit /\ RegInit /\ SvcInit /\ TorInit /\ SimInit
    /\ TrInit /\ FvrInit /\ ParInit
    /\ AnInit /\ RtInit /\ MigInit /\ DbInit
    /\ ny_pc = "called"
    /\ ny_doc \in NyaaDocs
    /\ ny_result = <<>>
    /\ ny_error = "none"

NextNyaa == NyaaParseReturns \/ NyaaParseRaises

SpecNyaa == InitNyaa /\ [][NextNyaa]_vars

NextAnime == AnimeConstruct \/ AnimeSetattr

SpecAnime == Init /\ [][NextAnime]_vars

NextRetry ==
    \/ CoreRejects
    \/ SessionSend
    \/ SessionRetries
    \/ SessionGivesUp
    \/ SessionRaises
    \/ SessionResponds
    \/ CoreHandles

SpecRetry == Init /\ [][NextRetry]_vars

\* a new database, and a package of some files
InitMigrate ==
    /\ MalInit /\ RegInit /\ SvcInit /\ TorInit /\ SimInit
    /\ TrInit /\ FvrInit /\ ParInit
    /\ NyInit /\ AnInit /\ RtInit /\ DbInit
    /\ mig_package \in SUBSET PackageNames
    /\ schema_migrations = {}
    /\ mig_executed = <<>>
    /\ mig_calls = 0

NextMigrate == InitDb

SpecMigrate == InitMigrate /\ [][NextMigrate]_vars

NextRepository ==
    \/ AnimeSaveBatch
    \/ TorrentSaveBatch
    \/ AnimeLoad
    \/ TorrentLoad
    \/ AnimeRoundTrip
    \/ TorrentRoundTrip

SpecRepository == Init /\ [][NextRepository]_vars

NextMain == MainRun

SpecMain == Init /\ [][NextMain]_vars

(***************************************************************************)
(* Properties of MalApi.get_user_anime_list.                               *)
(***************************************************************************)
RECURSIVE Flatten(_)
Flatten(pages) ==
    IF pages = <<>> THEN <<>> ELSE Head(pages).data \o Flatten(Tail(pages))

\* a page that arrived with a success status and the expected body
GoodPage(r) ==
    /\ r.kind = "response"
    /\ r.code < 400
    /\ r.has_data
    /\ r.paging # "absent"

\* N >= 1 good pages, the first N-1 with a next marker, the N-th without
CompleteRun(pages) ==
    /\ Len(pages) >= 1
    /\ \A i \in 1..Len(pages) :
          /\ GoodPage(pages[i])
          /\ (pages[i].paging = "next") <=> (i < Len(pages))

\* C1: once the server has answered N >= 1 page requests successfully, the
\* first N-1 answers with a paging.next marker and the N-th without, the
\* call has sent exactly N requests and has returned one dict whose data
\* is the concatenation of the pages' entries, pages in request order and
\* every page's entries in their own order.
C1_PagesConcatenated ==
    CompleteRun(mal_served) =>
        /\ mal_pc = "returned"
        /\ Len(mal_requests) = Len(mal_served)
        /\ mal_result = <<[data |-> Flatten(mal_served)]>>

C1_Witness ==
    /\ mal_pc = "returned"
    /\ Len(mal_requests) = 3
    /\ mal_result = <<[data |-> <<"b", "a", "a">>]>>

\* a page whose HTTP status is not a success
FailedPage(r) == r.kind = "response" /\ r.code >= 400

\* C2: a page request answered with a non-success HTTP status is the last
\* request of its call; the call has raised and has returned nothing, so
\* the entries of earlier pages never reach the caller.
C2_FailureNoPartialResult ==
    \A i \in 1..Len(mal_served) :
        FailedPage(mal_served[i]) =>
            /\ i = Len(mal_served)
            /\ i = Len(mal_requests)
            /\ mal_pc = "raised"
            /\ mal_error = "HTTPError"
            /\ mal_result = <<>>

C2_Witness ==
    /\ Len(mal_served) = 3
    /\ FailedPage(mal_served[3])
    /\ mal_served[3].paging = "no_next"
    /\ response.data = <<"a", "b", "a">>
    /\ mal_pc = "raised"

\* the loop is still running exactly when the last response carried the
\* marker, and every response that was followed by a request carried it
C3_LoopFollowsMarker ==
    /\ \A i \in 1..Len(mal_served) :
          i < Len(mal_served) =>
              GoodPage(mal_served[i]) /\ mal_served[i].paging = "next"
    /\ Len(mal_served) >= 1 /\ GoodPage(mal_served[Len(mal_served)]) =>
          (mal_pc = "loop" <=> mal_served[Len(mal_served)].paging = "next")
    /\ Len(mal_served) >= 1 /\ mal_served[Len(mal_served)].paging # "next" =>
          mal_pc # "loop"

\* C3: the loop goes on exactly while the last response carries a
\* paging.next marker and stops at the first response without it, with no
\* request after that page; with a server that eventually sends a page
\* without the marker, a started call eventually ends.
C3_LoopTerminates ==
    /\ []C3_LoopFollowsMarker
    /\ (mal_pc = "loop") ~> (mal_pc \in {"returned", "raised"})

C3_Witness ==
    /\ mal_pc = "returned"
    /\ Len(mal_served) = 3
    /\ mal_served[3].paging = "empty_next"

\* C4: the k-th page request of a call carries offset 1000*(k-1), limit
\* 1000 and the same translated status and field list as every other page
\* of the call; a call that has not asked for a page yet has an empty
\* accumulator, however many pages the call before it asked for.
C4_OffsetsAndParams ==
    /\ \A k \in 1..Len(mal_requests) :
          /\ mal_requests[k].params.offset = 1000 * (k - 1)
          /\ mal_requests[k].params.limit = 1000
          /\ mal_requests[k].params.status = MalTranslateStatus(mal_status)
          /\ mal_requests[k].params.fields = MalFields
    /\ mal_pc = "loop" /\ mal_requests = <<>> => response.data = <<>>

C4_Witness ==
    /\ mal_calls = 2
    /\ mal_prev = 3
    /\ Len(mal_requests) = 3
    /\ mal_requests[3].params.offset = 2000
    /\ mal_status = "REPEATING"

(***************************************************************************)
(* Properties of the service entry points.                                 *)
(***************************************************************************)
\* empty or made of whitespace only
IsBlank(text) == \A i \in 1..Len(text) : text[i] \in Whitespace

\* C5: a call of AnimeService.get_user_anime_list with an empty or
\* whitespace-only username, and a call of TorrentService.search with an
\* empty or whitespace-only query, ends in ValueError, enters no adapter and
\* sends no request.
C5_RejectedBeforeNetwork ==
    [][ /\ (svc_calls' # svc_calls /\ IsBlank(svc_arg')) =>
              /\ svc_pc' = "raised"
              /\ svc_error' = "ValueError"
              /\ svc_result' = <<>>
              /\ UNCHANGED <<mal_calls, mal_requests, ani_calls, ani_requests,
                             nyaa_calls, nyaa_requests>>
        /\ (tor_calls' # tor_calls /\ IsBlank(tor_arg')) =>
              /\ tor_error' = "ValueError"
              /\ tor_result' = <<>>
              /\ UNCHANGED <<mal_calls, mal_requests, ani_calls, ani_requests,
                             nyaa_calls, nyaa_requests>>
      ]_vars

C5_Witness ==
    /\ svc_calls = 1 /\ svc_arg = <<" ">> /\ svc_error = "ValueError"
    /\ tor_calls = 1 /\ tor_arg = <<"\t", "\n">> /\ tor_error = "ValueError"
    /\ mal_calls = 0 /\ ani_calls = 0 /\ nyaa_calls = 0

(***************************************************************************)
(* Properties of the registry.                                             *)
(***************************************************************************)
\* needle occurs in hay as a run of consecutive characters
Contains(hay, needle) ==
    \E i \in 1..(Len(hay) - Len(needle) + 1) :
        SubSeq(hay, i, i + Len(needle) - 1) = needle

C6_LookupFindsLatest ==
    last_op.op = "create" =>
        \A e \in latest :
            e[1] = Lower(last_op.name) =>
                /\ last_op.error = "none"
                /\ last_op.factory = <<e[2]>>
                /\ last_op.made = <<FactoryMakes(e[2])>>

C6_RegisterReplacesOne ==
    last_op'.op = "register" =>
        /\ Get(registry', Lower(last_op'.name)) = last_op'.factory
        /\ \A k \in KeySet(registry) \ {Lower(last_op'.name)} :
              Get(registry', k) = Get(registry, k)
        /\ KeySet(registry') = KeySet(registry) \cup {Lower(last_op'.name)}

\* C6: a lookup under any spelling of a name finds the factory registered
\* last under any spelling of that name; a registration sets the entry of
\* the lower-cased name, never fails, and leaves every other entry as it
\* was.
C6_RegistryCaseInsensitive ==
    /\ []C6_LookupFindsLatest
    /\ [][C6_RegisterReplacesOne]_vars

C6_Witness ==
    /\ last_op.op = "create"
    /\ last_op.name = <<"A", "n", "i", "L", "i", "s", "t">>
    /\ last_op.factory = <<"f2">>
    /\ <<NameAnilist, "f2">> \in latest
    /\ Get(registry, NameMal) = <<"MalFactory">>

C7_UnknownSourceRaises ==
    last_op.op = "create" =>
        /\ last_op.error = "AnimeSourceError" <=>
              Lower(last_op.name) \notin KeySet(registry)
        /\ last_op.error = "AnimeSourceError" =>
              /\ last_op.made = <<>>
              /\ \A k \in KeySet(registry) : Contains(last_op.available, k)
        /\ last_op.error # "AnimeSourceError" =>
              /\ last_op.error = "none"
              /\ last_op.made # <<>>

\* C7: a lookup raises AnimeSourceError exactly when the lower-cased
\* source is no key of the registry; the message then names every
\* registered key, nothing is constructed, a failed AnimeService
\* construction leaves no new service, and the registry stays as it was.
C7_UnknownSource ==
    /\ []C7_UnknownSourceRaises
    /\ [][last_op'.op = "create" =>
            /\ registry' = registry
            /\ last_op'.error = "AnimeSourceError" => svc' = svc]_vars

C7_Witness ==
    /\ last_op.op = "create"
    /\ last_op.name = <<"X">>
    /\ last_op.error = "AnimeSourceError"
    /\ Len(registry) = 3
    /\ Contains(last_op.available, <<"k", "i", "t", "s", "u">>)

\* C8: the registry always holds the keys anilist and mal and the
\* lower-cased form of every name registered so far; no step removes a key
\* and no lookup changes the registry.
C8_KeysNeverRemoved ==
    /\ [](({NameAnilist, NameMal} \cup registered) \subseteq KeySet(registry))
    /\ [][ /\ KeySet(registry) \subseteq KeySet(registry')
           /\ last_op'.op = "create" => registry' = registry ]_vars

C8_Witness ==
    /\ registered = {NameAnilist, <<"k", "i", "t", "s", "u">>, <<"x">>}
    /\ Len(registry) = 4
    /\ last_op.op = "create"

(***************************************************************************)
(* Properties of SimilarityService.                                        *)
(***************************************************************************)
\* the step is a compute call
ComputeStep == sim_calls' # sim_calls /\ sim_last'.op = "compute"

\* C9: compute with no candidates returns the empty list and does not call
\* the model factory; a service that has only seen such calls is Unloaded.
C9_EmptyComputeLoadsNothing ==
    /\ [](sim_only_empty => sim_model = <<>> /\ factory_calls = 0)
    /\ [](sim_last.op = "compute" /\ sim_last.candidates = <<>> =>
            sim_last.result = <<>> /\ sim_last.error = "none")
    /\ [][ComputeStep /\ sim_last'.candidates = <<>> =>
            UNCHANGED <<sim_model, factory_calls, factory_made>>]_vars

C9_Witness ==
    /\ sim_only_empty
    /\ sim_calls = 3
    /\ sim_last.op = "compute"
    /\ sim_model = <<>>

\* C10 as stated: the factory is invoked at most once, the first call with
\* candidates loads the model, and the model is never unloaded.
C10_FactoryInvokedOnce ==
    /\ [](factory_calls <= 1)
    /\ [][ /\ ComputeStep /\ sim_last'.candidates # <<>> => sim_model' # <<>>
           /\ sim_model # <<>> => sim_model' = sim_model ]_vars

\* C10, amended: the factory returns a model at most once. A call with
\* candidates whose factory invocation does not raise leaves the service
\* Loaded; once Loaded the service keeps that model instance, uses it in
\* every later call and does not invoke the factory again.
C10_ModelBuiltOnce ==
    /\ [](factory_made <= 1)
    /\ [](sim_last.used # <<>> => sim_last.used = sim_model)
    /\ [][ /\ ComputeStep /\ sim_last'.candidates # <<>>
              /\ sim_last'.error = "none" => sim_model' # <<>>
           /\ sim_model # <<>> =>
                 /\ sim_model' = sim_model
                 /\ factory_calls' = factory_calls
                 /\ factory_made' = factory_made ]_vars

C10_Witness ==
    /\ sim_calls = 3
    /\ factory_calls = 2
    /\ factory_made = 1
    /\ sim_last.op = "compute"
    /\ sim_last.candidates = <<"t3", "t1">>
    /\ sim_last.used = <<1>>
(***************************************************************************)
(* Properties of SimilarityService under concurrent callers.               *)
(***************************************************************************)
\* C11: when two callers run compute with non-empty candidates at the same
\* time on an Unloaded service, nothing keeps the second from passing the
\* is-None check of load_model while the first is between its check and
\* its assignment (no lock excludes it), so both go on to invoke the
\* factory: every thread that found no model invokes the factory, and the
\* factory has been invoked once per such thread.
C11_NoLockExcludesDoubleConstruction ==
    /\ \A t \in Threads : \A u \in Threads \ {t} :
          (/\ thr_pc[t] = "line98"
           /\ thr_pc[u] \in {"line100", "line100_store"}
           /\ sim_model = <<>>)
          => ENABLED (ThrCheck(t) /\ thr_pc'[t] = "line100")
    /\ \A t \in Threads : thr_pc[t] = "line100" => ENABLED ThrFactoryReturns(t)
    /\ factory_made = Cardinality({t \in Threads : thr_made[t] # <<>>})

\* two callers have returned and the factory was invoked twice: the model
\* was constructed twice, and each caller built an instance of its own
C11_Witness ==
    /\ thr_pc[1] = "returned" /\ thr_pc[2] = "returned"
    /\ thr_cands[1] # <<>> /\ thr_cands[2] # <<>>
    /\ thr_made[1] # <<>> /\ thr_made[2] # <<>>
    /\ thr_made[1] # thr_made[2]
    /\ factory_calls = 2

(***************************************************************************)
(* Properties of the ranking of SimilarityService.compute.                 *)
(***************************************************************************)
\* the last call was a compute with candidates that returned
Ranking ==
    /\ sim_last.op = "compute"
    /\ sim_last.error = "none"
    /\ sim_last.candidates # <<>>

\* how often text x occurs in the sequence of texts q
Occurrences(q, x) == Cardinality({i \in 1..Len(q) : q[i] = x})

C13_StableSort ==
    Ranking =>
        LET res == sim_last.result
            cands == sim_last.candidates
            n == Len(cands)
        IN  /\ Len(res) = n
            /\ \E pi \in Permutations(1..n) :
                  /\ \A k \in 1..n : res[k].candidate = cands[pi[k]]
                  /\ \A k \in 1..n : \A l \in (k + 1)..n :
                        res[k].score = res[l].score => pi[k] < pi[l]

\* two different candidates with the same score were ranked: they come
\* back in the order they were given
C13_Witness ==
    /\ Ranking
    /\ Len(sim_last.candidates) = 2
    /\ sim_last.candidates[1] # sim_last.candidates[2]
    /\ sim_last.result[1].score = sim_last.result[2].score
    /\ sim_last.result[1].candidate = sim_last.candidates[1]

(***************************************************************************)
(* Properties of the status tables.                                        *)
(***************************************************************************)
\* the translations t and u agree although their arguments differ
Collide(t, u) ==
    /\ t.adapter = u.adapter
    /\ t.internal_status \in AnimeStatus /\ u.internal_status \in AnimeStatus
    /\ t.internal_status # u.internal_status
    /\ t.result = u.result

\* C14: for each of the six statuses and each adapter, _translate_status
\* returns a defined non-empty string; for a value without a mapping it
\* returns None, not an empty string; the MyAnimeList table maps WATCHING
\* and REPEATING to the same string and is otherwise injective; the
\* AniList table is injective.
C14_StatusTables ==
    /\ tr_last.adapter # "none" =>
          /\ (tr_last.internal_status \in AnimeStatus
                 => Len(tr_last.result) = 1 /\ tr_last.result[1] # "")
          /\ (tr_last.internal_status \notin AnimeStatus => tr_last.result = <<>>)
    /\ (tr_prev.adapter # "none" /\ Collide(tr_prev, tr_last)) =>
          /\ tr_last.adapter = "MalApi"
          /\ {tr_prev.internal_status, tr_last.internal_status}
               = {"WATCHING", "REPEATING"}
    /\ (/\ tr_prev.adapter = "MalApi" /\ tr_last.adapter = "MalApi"
        /\ tr_prev.internal_status = "WATCHING"
        /\ tr_last.internal_status = "REPEATING")
          => tr_prev.result = tr_last.result

\* the MyAnimeList adapter translated WATCHING and then REPEATING to the
\* same string
C14_Witness ==
    /\ tr_prev = [adapter |-> "MalApi", internal_status |-> "WATCHING",
                  result |-> <<"watching">>]
    /\ tr_last = [adapter |-> "MalApi", internal_status |-> "REPEATING",
                  result |-> <<"watching">>]

(***************************************************************************)
(* Properties of DictWrangler.find_value_recursively.                      *)
(***************************************************************************)
NotFound == [found |-> FALSE, value |-> None]

RECURSIVE FirstOccurrence(_, _)
RECURSIVE FirstOccurrenceInItems(_, _, _)
\* the first occurrence of key among the items from i on, each searched
\* depth first
FirstOccurrenceInItems(items, key, i) ==
    IF i > Len(items) THEN NotFound
    ELSE LET first == FirstOccurrence(items[i].value, key) IN
         IF first.found THEN first
         ELSE FirstOccurrenceInItems(items, key, i + 1)

\* the first occurrence of key in data in a depth-first traversal that
\* checks a dict's own keys before it descends into its values in key
\* order and visits the elements of a list in order
FirstOccurrence(data, key) ==
    IF data.kind = "dict" /\ HasKey(data, key)
    THEN [found |-> TRUE, value |-> GetItem(data, key)]
    ELSE IF data.kind \in {"dict", "list"}
    THEN FirstOccurrenceInItems(data.items, key, 1)
    ELSE NotFound

\* C15: find_value_recursively(data, key) returns the value of the first
\* occurrence of key in the depth-first traversal, whatever value is stored
\* there (a null included), and None when key occurs nowhere or data is a
\* primitive or empty.
C15_FirstOccurrenceReturned ==
    fvr_pc = "returned" =>
        LET first == FirstOccurrence(fvr_data, fvr_key) IN
        fvr_result = IF first.found THEN first.value ELSE None

\* what does hold: the value of the first occurrence is returned when that
\* occurrence is at the top level of data or holds a value other than None,
\* and None is returned when key occurs nowhere
FirstOccurrenceReturnedUnlessNone ==
    fvr_pc = "returned" =>
        LET first == FirstOccurrence(fvr_data, fvr_key) IN
        (~first.found \/ first.value # None \/ HasKey(fvr_data, fvr_key))
            => fvr_result = IF first.found THEN first.value ELSE None

(***************************************************************************)
(* Properties of the parsers.                                              *)
(***************************************************************************)
\* the value the top-level field of the payload holds
TopField == FindValueRecursively(par_metadata, TopKey(par_parser))

\* the i-th raw item of the payload
RawItem(i) == TopField.items[i].value

\* raw item i has the field f of the record
HasField(i, f) == FirstOccurrence(RawItem(i), FieldKey(par_parser, f)).found

\* the call is over and its payload held a list of n raw items
ParsedList(n) ==
    /\ par_pc # "called"
    /\ TopField.kind = "list"
    /\ Len(TopField.items) = n

\* C16: parse_api_metadata on a payload whose top-level field holds a list
\* of n raw items returns exactly n records, the i-th built from the
\* identifier, romanized title, localized title, episode count and status
\* of the i-th raw item, in the order of the raw items.
C16_OneRecordPerItem ==
    \A n \in 0..MaxItems :
        ParsedList(n) =>
            /\ par_pc = "returned"
            /\ Len(par_result) = n
            /\ \A i \in 1..n : \A f \in ExtractedFields :
                  par_result[i][f] =
                     FindValueRecursively(RawItem(i), FieldKey(par_parser, f))

\* C17: every record a parser produces carries the source tag that names
\* that parser, so the records of AniListParser and those of MalParser
\* carry different tags and (identifier, source) tells them apart.
C17_SourceTagNamesParser ==
    \A n \in 1..MaxItems :
        ParsedList(n) =>
            /\ par_pc = "returned"
            /\ Len(par_result) = n
            /\ \A i \in 1..n : par_result[i]["source"] = Prim(par_parser)

\* C18: a raw item that lacks any of the extracted fields does not make
\* parse_api_metadata raise: a record is still produced for it, with None
\* in the missing fields, and the records of the other items are what
\* they would be without it.
C18_MissingFieldsBecomeNone ==
    \A n \in 1..MaxItems :
        (ParsedList(n) /\ \E i \in 1..n : \E f \in ExtractedFields : ~HasField(i, f)) =>
            /\ par_pc = "returned"
            /\ Len(par_result) = n
            /\ \A i \in 1..n : \A f \in ExtractedFields :
                  par_result[i][f] =
                     IF HasField(i, f)
                     THEN FirstOccurrence(RawItem(i), FieldKey(par_parser, f)).value
                     ELSE None

(***************************************************************************)
(* Properties of the failures of AnimeService.get_user_anime_list and      *)
(* TorrentService.search.                                                  *)
(***************************************************************************)
\* the last exchange of the call ended in a transport error or in a
\* non-success status
NetworkFailure(served) ==
    /\ served # <<>>
    /\ \/ served[Len(served)].kind = "transport_error"
       \/ RaisesForStatus(served[Len(served)].code)

\* the last exchange of the call brought a success status and a body of
\* an unexpected shape
UnexpectedShape(served) ==
    /\ served # <<>>
    /\ served[Len(served)].kind = "response"
    /\ ~RaisesForStatus(served[Len(served)].code)
    /\ ~served[Len(served)].complete

\* C19: a non-success HTTP status or a transport failure during
\* AnimeService.get_user_anime_list or TorrentService.search reaches the
\* caller as NetworkError.
C19_NetworkFailureIsNetworkError ==
    /\ (svc_pc \in {"returned", "raised"} /\ NetworkFailure(svc_served))
          => (svc_pc = "raised" /\ svc_error = "NetworkError")
    /\ NetworkFailure(tor_served) => tor_error = "NetworkError"

\* C20: a torrent search document without a table body, a MyAnimeList
\* page without its paging field, and a list payload without its entries
\* or data field reach the caller as ParsingError, and no request follows
\* the response.
C20_UnexpectedShapeIsParsingError ==
    /\ (svc_pc \in {"returned", "raised"} /\ UnexpectedShape(svc_served))
          => (svc_pc = "raised" /\ svc_error = "ParsingError")
    /\ UnexpectedShape(tor_served) => tor_error = "ParsingError"

(***************************************************************************)
(* Properties of NyaaParser.parse_api_metadata.                            *)
(***************************************************************************)
\* the rows of the documents that have the expected structure, and what is
\* written in them
WellFormedRows == {GoodRow, CommentedRow}

WrittenIn(row) ==
    IF row = GoodRow
    THEN [torrent_id |-> <<"1", "2">>, seeders |-> 150, leechers |-> 25,
          download_url |-> <<"/download/", "1", "2">>]
    ELSE [torrent_id |-> <<"7">>, seeders |-> 0, leechers |-> 3,
          download_url |-> <<"/download/", "7">>]

C30_FactoryFailureLeavesUnloaded ==
    /\ [](sim_last.error = "FactoryError" =>
            sim_model = <<>> /\ sim_last.result = <<>> /\ sim_last.used = <<>>)
    /\ [](sim_model = <<>> <=> factory_made = 0)
    /\ [][ /\ (ComputeStep /\ sim_last'.candidates # <<>> /\ sim_model = <<>>)
                => factory_calls' = factory_calls + 1
           /\ (ComputeStep /\ sim_last.error = "FactoryError"
                  /\ sim_last'.candidates # <<>>)
                => factory_calls' = factory_calls + 1
           /\ factory_made > 0 => factory_calls' = factory_calls ]_vars

\* two compute calls have failed in the factory and the third has loaded
\* the model
C30_Witness ==
    /\ sim_last.op = "compute"
    /\ sim_last.error = "none"
    /\ sim_last.candidates # <<>>
    /\ factory_calls = 3
    /\ factory_made = 1
    /\ sim_model = <<1>>

(***************************************************************************)
(* Properties of the Anime dataclass.                                      *)
(***************************************************************************)
\* the record exposes the values it was constructed from, and None for
\* the episodes when they were left out
ExposesArguments ==
    /\ an_obj # <<>>
    /\ \A f \in DOMAIN an_kwargs :
          f \in DOMAIN an_obj[1] /\ an_obj[1][f] = an_kwargs[f]
    /\ "episodes" \notin DOMAIN an_kwargs => an_obj[1]["episodes"] = None

\* C27: an Anime record can be constructed from (anime_id, source,
\* title_romaji, title_english, status, episodes), with or without the
\* episodes, and then exposes those values, the episodes being None when
\* left out; an assignment to a field of a record fails and leaves the
\* record as it was.
C27_AnimeFromSixFields ==
    /\ (an_op = "new" /\ CallerFields \ {"episodes"} \subseteq DOMAIN an_kwargs)
          => (an_error = "none" /\ ExposesArguments)
    /\ an_op = "setattr"
          => (an_error = "AttributeError" /\ ExposesArguments)

\* the part of C27 the declared fields bear out: a record constructed from
\* the declared fields exposes them, and an assignment fails and changes
\* nothing
DeclaredFieldsExposed ==
    /\ (an_op = "new" /\ Accepts(an_kwargs)) => (an_error = "none" /\ ExposesArguments)
    /\ an_op = "setattr" => (an_error = "AttributeError" /\ ExposesArguments)

(***************************************************************************)
(* Properties of the retries of the default session.                       *)
(***************************************************************************)
\* the requests the call has sent so far
RequestsSent == Len(rt_answers) + (IF rt_pc = "sent" THEN 1 ELSE 0)

\* the answers that were followed by another request of the same call
Retried == {rt_answers[i] : i \in 1..(RequestsSent - 1)}

\* the retries are bounded, and a failure reported for retries used up
\* comes after the whole budget
RetriesBounded ==
    /\ RequestsSent <= 1 + 3
    /\ rt_outcome = "RetryError" => RequestsSent = 1 + 3

\* no request is out or follows once the core has met a validation or a
\* parsing failure
NoRequestAfterCoreFailure ==
    /\ rt_outcome = "ValueError" => (rt_pc = "done" /\ RequestsSent = 0)
    /\ rt_outcome = "ParseFailure" =>
          /\ rt_pc = "done"
          /\ rt_answers[Len(rt_answers)] \notin Retried

ScriptsAscending ==
    <<<<"1", ".sql">>, <<"1", "0", ".sql">>, <<"2", ".sql">>, <<"2", "a", ".sql">>>>

\* where a script stands in that order
Place(name) == CHOOSE i \in 1..Len(ScriptsAscending) : ScriptsAscending[i] = name

\* how many times a script has been executed
TimesExecuted(log, name) == Cardinality({i \in 1..Len(log) : log[i] = name})

Latest(batch, i, key) ==
    batch[CHOOSE j \in i..Len(batch) :
              /\ \A c \in key \cap DOMAIN batch[i] : batch[j][c] = batch[i][c]
              /\ \A k \in (j + 1)..Len(batch) :
                     \E c \in key \cap DOMAIN batch[i] : batch[k][c] # batch[i][c]]

\* every record of the batch is in the table, with the fields of the last
\* record saved under its key
Persisted(batch, table, key) ==
    \A i \in 1..Len(batch) :
        \E row \in table :
            \A f \in DOMAIN batch[i] : row[f] = Latest(batch, i, key)[f]

SavedBatch ==
    /\ db_last.op \in {"anime.save_batch", "torrent.save_batch"}
    /\ db_last.arg # <<>>

TableOf(op) == IF op = "anime.save_batch" THEN anime_table ELSE torrent_table

KeyOf(op) == IF op = "anime.save_batch" THEN AnimeKey ELSE TorrentKey

\* C22: a table holds at most one row per key, and once save_batch has
\* been called with a batch, each record of the batch is stored, with the
\* fields of the record saved last under its key.
C22_SavedRecordsStoredUnderKey ==
    /\ \A r1, r2 \in anime_table :
           (\A c \in AnimeKey : r1[c] = r2[c]) => r1 = r2
    /\ \A r1, r2 \in torrent_table :
           (\A c \in TorrentKey : r1[c] = r2[c]) => r1 = r2
    /\ SavedBatch => Persisted(db_last.arg, TableOf(db_last.op), KeyOf(db_last.op))

\* C24: a record turned into parameters, stored and turned into a record
\* again is the record it was, download_url included.
C24_MappersAreInverse ==
    db_last.op \in {"anime.roundtrip", "torrent.roundtrip"} =>
        /\ db_last.error = "none"
        /\ db_last.result = db_last.arg

\* an empty batch is returned at once: no statement reaches the database
EmptyBatchTouchesNothing ==
    [][(db_last'.op \in {"anime.save_batch", "torrent.save_batch"}
          /\ db_last'.arg = <<>>)
         => (db_writes' = db_writes /\ anime_table' = anime_table
               /\ torrent_table' = torrent_table /\ db_last'.error = "none")]_vars

\* parameters are built before the transaction is opened: a batch with a
\* record that lacks a column attribute leaves the database untouched
ParamsFailureTouchesNothing ==
    [][(db_last'.error = "AttributeError")
         => (db_writes' = db_writes /\ anime_table' = anime_table
               /\ torrent_table' = torrent_table)]_vars

(***************************************************************************)
(* main.                                                                   *)
(***************************************************************************)
\* the source answered the run with a list of at least one entry
EntriesServed ==
    /\ main_last.op = "main"
    /\ main_last.answered
    /\ LET top == FindValueRecursively(main_last.payload, TopKey(main_last.parser))
       IN top.kind = "list" /\ Len(top.items) > 0

\* the torrent site answered the run with well-formed rows
TorrentsServed ==
    /\ main_last.op = "main"
    /\ main_last.site_answered
    /\ main_last.doc.has_tbody
    /\ main_last.doc.rows # <<>>
    /\ \A i \in 1..Len(main_last.doc.rows) : main_last.doc.rows[i] \in WellFormedRows

\* the identifier the source wrote in its first entry
FirstEntryId ==
    LET top == FindValueRecursively(main_last.payload, TopKey(main_last.parser))
    IN FindValueRecursively(top.items[1].value, "id")

\* C23: after a main run in which the source answered with entries and
\* the torrent site with rows, every torrent of the rows is stored with the
\* identifier and the source tag of the first anime, whose title was the
\* query, and no torrent row carries another reference or none.
C23_TorrentsStoredWithQueriedAnime ==
    (EntriesServed /\ TorrentsServed) =>
        /\ \A i \in 1..Len(main_last.doc.rows) :
               \E row \in torrent_table :
                   row.torrent_id = WrittenIn(main_last.doc.rows[i]).torrent_id
        /\ \A row \in torrent_table \ main_last.torrent_before :
               /\ Prim(row.anime_id) = FirstEntryId
               /\ Prim(row.anime_source) = Prim(SourceTag(main_last.parser))

\* a run that fetched an empty list searches nothing and stores nothing
EmptyListStoresNothing ==
    (main_last.op = "main" /\ main_last.error = "none"
       /\ main_last.fetched = <<>>) =>
        /\ main_last.steps = <<"fetch">>
        /\ anime_table = main_last.anime_before
        /\ torrent_table = main_last.torrent_before

\* no run searches or saves a torrent before it has saved the anime batch
NoSearchBeforeAnimeSaved ==
    main_last.op = "main" =>
        \A i \in 1..Len(main_last.steps) :
            main_last.steps[i] \in {"search", "torrent.save_batch"} =>
                \E j \in 1..(i - 1) : main_last.steps[j] = "anime.save_batch"

\* C28: a main run in which the source answered with entries saves the
\* anime batch, and does so before it searches or saves a torrent; the
\* reference of every torrent row is the key of a row of table anime; a
\* run that fetched an empty list searches nothing and stores nothing.
C28_AnimeSavedBeforeTorrents ==
    /\ EntriesServed =>
           /\ Len(main_last.steps) >= 2
           /\ main_last.steps[2] = "anime.save_batch"
           /\ anime_table # {}
    /\ NoSearchBeforeAnimeSaved
    /\ \A row \in torrent_table :
           \E anime \in anime_table :
               anime.anime_id = row.anime_id /\ anime.source = row.anime_source
    /\ EmptyListStoresNothing
====
